---- MODULE Spec2Model ----
(***************************************************************************)
(* A model of zhtw's multi-pattern matcher (src/zhtw/matcher.py): the      *)
(* Matcher constructor, find_matches, replace_all and has_matches, over    *)
(* small alphabets of characters.  Texts and terms are sequences of        *)
(* one-character strings; Match offsets are 0-based and half-open as in    *)
(* the Python code.                                                        *)
(***************************************************************************)
EXTENDS Integers, Sequences, FiniteSets, TLC

\* ------------------------------------------------------------------ bounds
MaxTextLen == 3
MaxTerms == 3
MaxSrcLen == 2
MaxTgtLen == 2
MaxCalls == 1

\* Characters that texts and source terms are written in.
Alphabet == {"A", "B"}
\* A character that occurs in no text and no source term.
Foreign == {"x"}

RECURSIVE SeqsOfLen(_, _)
SeqsOfLen(S, n) ==
    IF n = 0 THEN {<<>>}
    ELSE {Append(s, c) : s \in SeqsOfLen(S, n - 1), c \in S}

SeqsUpTo(S, n) == UNION {SeqsOfLen(S, k) : k \in 0..n}

Texts == SeqsUpTo(Alphabet, MaxTextLen)
\* Source keys a caller may pass; the empty key is included.
SourcePool == SeqsUpTo(Alphabet, MaxSrcLen)
\* Targets for a key: the key itself (an identity entry), the empty text
\* (shorter than any key) or foreign text of MaxTgtLen characters (as long as
\* the longest keys, longer than the others).
TargetsFor(s) == {s, <<>>} \cup SeqsOfLen(Foreign, MaxTgtLen)

\* The dicts a caller may pass to Matcher() with the keys D.
RECURSIVE MappingsOver(_)
MappingsOver(D) ==
    IF D = {} THEN {[s \in {} |-> <<>>]}
    ELSE LET k == CHOOSE s \in D : TRUE
         IN  {[s \in D |-> IF s = k THEN t ELSE m[s]] :
                  m \in MappingsOver(D \ {k}), t \in TargetsFor(k)}

\* The key sets of the dicts a caller may pass: at most MaxTerms entries.
TermDomains == {E \in SUBSET SourcePool : Cardinality(E) <= MaxTerms}

\* ------------------------------------------------- the ahocorasick library
\* ahocorasick.Automaton(): an empty trie.
NewAutomaton == [kind |-> "EMPTY", words |-> <<>>]

\* Automaton.add_word(key, value): stores value under key; an empty key is
\* not stored (add_word returns False) and the trie stays as it was.
add_word(a, key, value) ==
    IF key = <<>> THEN a
    ELSE [kind |-> "TRIE",
          words |-> [k \in DOMAIN a.words \cup {key} |->
                        IF k = key THEN value ELSE a.words[k]]]

\* Automaton.make_automaton(): converts a non-empty trie; a no-op on an
\* empty one.
make_automaton(a) ==
    IF a.kind = "TRIE" THEN [a EXCEPT !.kind = "AHOCORASICK"] ELSE a

\* The values found ending at 0-based offset endPos, longest key first.
RECURSIVE IterAt(_, _, _, _)
IterAt(a, t, endPos, len) ==
    IF len = 0 THEN <<>>
    ELSE LET w == SubSeq(t, endPos - len + 2, endPos + 1)
             here == IF len <= endPos + 1 /\ w \in DOMAIN a.words
                     THEN <<<<endPos, a.words[w]>>>>
                     ELSE <<>>
         IN  here \o IterAt(a, t, endPos, len - 1)

MaxKeyLen(a) ==
    IF DOMAIN a.words = {} THEN 0
    ELSE CHOOSE n \in {Len(k) : k \in DOMAIN a.words} :
             \A k \in DOMAIN a.words : Len(k) <= n

\* Automaton.iter(text): every occurrence of every stored key, as
\* (end_index, value), in ascending end_index order.
RECURSIVE IterFrom(_, _, _)
IterFrom(a, t, endPos) ==
    IF endPos >= Len(t) THEN <<>>
    ELSE IterAt(a, t, endPos, MaxKeyLen(a)) \o IterFrom(a, t, endPos + 1)

\* iter() raises AttributeError unless make_automaton has converted the trie.
IterRaises(a) == a.kind # "AHOCORASICK"

\* ------------------------------------------------------------ Matcher
\* Matcher._build_automaton, over the entries of terms in any order (a dict
\* has unique keys, so the order of add_word calls does not matter).
RECURSIVE AddWords(_, _, _)
AddWords(a, m, keys) ==
    IF keys = {} THEN a
    ELSE LET k == CHOOSE k \in keys : TRUE
         IN  AddWords(add_word(a, k, [source |-> k, target |-> m[k]]),
                      m, keys \ {k})

_build_automaton(m) == make_automaton(AddWords(NewAutomaton, m, DOMAIN m))

Match(s, e, src, tgt) == [start |-> s, end |-> e, source |-> src, target |-> tgt]

RawMatches_StartOffByOne(a, t) ==
    LET it == IterFrom(a, t, 0)
    IN  [i \in 1..Len(it) |->
            Match(it[i][1] - Len(it[i][2].source), it[i][1] + 1,
                  it[i][2].source, it[i][2].target)]

\* matcher.py:74-84: the Match of every (end_pos, (source, target)) from iter.
RawMatches(a, t) ==
    LET it == IterFrom(a, t, 0)
    IN  [i \in 1..Len(it) |->
            Match(it[i][1] - Len(it[i][2].source) + 1, it[i][1] + 1,
                  it[i][2].source, it[i][2].target)]

KeyLess_ShorterFirst(m1, m2) ==
    \/ m1.start < m2.start
    \/ m1.start = m2.start /\ (m1.end - m1.start) < (m2.end - m2.start)

\* The sort key of matcher.py:87: (start, -(end - start)), compared as tuples.
KeyLess(m1, m2) ==
    \/ m1.start < m2.start
    \/ m1.start = m2.start /\ -(m1.end - m1.start) < -(m2.end - m2.start)

\* list.sort is stable: an element goes after every element not greater.
RECURSIVE InsertSorted(_, _)
InsertSorted(sorted, m) ==
    IF sorted = <<>> THEN <<m>>
    ELSE IF KeyLess(m, Head(sorted)) THEN <<m>> \o sorted
    ELSE <<Head(sorted)>> \o InsertSorted(Tail(sorted), m)

RECURSIVE SortMatches(_, _)
SortMatches(ms, i) ==
    IF i = 0 THEN <<>>
    ELSE InsertSorted(SortMatches(ms, i - 1), ms[i])

Span(m) == m.start .. (m.end - 1)

\* matcher.py:93-96: the offsets covered by identity occurrences.
Protected(all) ==
    UNION {Span(all[i]) : i \in {j \in 1..Len(all) : all[j].source = all[j].target}}

NotOverlapped_ByEnd(match, last_end) == match.end > last_end

NotOverlapped_Strict(match, last_end) == match.start > last_end

\* matcher.py:101: the occurrence starts at or after the last claimed end.
NotOverlapped(match, last_end) == match.start >= last_end

Vetoed_StartOnly(match, protected) ==
    /\ match.source # match.target
    /\ match.start \in protected

\* matcher.py:103-104: a conversion that covers a protected offset.
Vetoed(match, protected) ==
    /\ match.source # match.target
    /\ \E k \in Span(match) : k \in protected

Yielded_Always(match) == TRUE

\* matcher.py:108: identity matches are not yielded.
Yielded(match) == match.source # match.target

AfterVeto_Claims(match, last_end) == match.end

\* matcher.py:105: continue, before last_end = match.end is reached.
AfterVeto(match, last_end) == last_end

\* matcher.py:99-109: the walk over the sorted occurrences.
RECURSIVE Filter(_, _, _, _)
Filter(all, protected, i, last_end) ==
    IF i > Len(all) THEN <<>>
    ELSE LET match == all[i]
         IN  IF NotOverlapped(match, last_end)
             THEN IF Vetoed(match, protected)
                  THEN Filter(all, protected, i + 1, AfterVeto(match, last_end))
                  ELSE (IF Yielded(match) THEN <<match>> ELSE <<>>)
                       \o Filter(all, protected, i + 1, match.end)
             ELSE Filter(all, protected, i + 1, last_end)

AllMatches(a, t) == LET raw == RawMatches(a, t) IN SortMatches(raw, Len(raw))

find_matches_NoEmptyGuard(m, a, t) ==
    IF IterRaises(a) THEN [err |-> "AttributeError", out |-> <<>>]
    ELSE LET all == AllMatches(a, t)
         IN  [err |-> "none", out |-> Filter(all, Protected(all), 1, -1)]

\* Matcher.find_matches, drained: the matches it yields, or the exception
\* that the first next() raises.
find_matches(m, a, t) ==
    IF DOMAIN m = {} THEN [err |-> "none", out |-> <<>>]
    ELSE IF IterRaises(a) THEN [err |-> "AttributeError", out |-> <<>>]
    ELSE LET all == AllMatches(a, t)
         IN  [err |-> "none", out |-> Filter(all, Protected(all), 1, -1)]

StartBefore_Ascending(m1, m2) == m1.start < m2.start

\* matcher.py:165: key m.start with reverse=True: the greater start first.
StartBefore(m1, m2) == m1.start > m2.start

\* matcher.py:165: the sort (stable: equal keys keep their order).
RECURSIVE InsertByStartDesc(_, _)
InsertByStartDesc(sorted, m) ==
    IF sorted = <<>> THEN <<m>>
    ELSE IF StartBefore(m, Head(sorted)) THEN <<m>> \o sorted
    ELSE <<Head(sorted)>> \o InsertByStartDesc(Tail(sorted), m)

RECURSIVE SortByStartDesc(_, _)
SortByStartDesc(ms, i) ==
    IF i = 0 THEN <<>>
    ELSE InsertByStartDesc(SortByStartDesc(ms, i - 1), ms[i])

\* result[:start] + target + result[end:]
Splice(r, m) == SubSeq(r, 1, m.start) \o m.target \o SubSeq(r, m.end + 1, Len(r))

\* matcher.py:168-170: the replacements, one after the other.
RECURSIVE ApplyInOrder(_, _, _)
ApplyInOrder(r, ms, i) ==
    IF i > Len(ms) THEN r
    ELSE ApplyInOrder(Splice(r, ms[i]), ms, i + 1)

\* Matcher.replace_all, given the list find_matches yielded.
Substitute(t, ms) ==
    IF ms = <<>> THEN t
    ELSE ApplyInOrder(t, SortByStartDesc(ms, Len(ms)), 1)

replace_all(m, a, t) ==
    LET fm == find_matches(m, a, t)
    IN  IF fm.err # "none" THEN [err |-> fm.err, out |-> t, matches |-> <<>>]
        ELSE [err |-> "none", out |-> Substitute(t, fm.out), matches |-> fm.out]

has_matches_Truthy(m, a, t) == [err |-> "none", out |-> TRUE]

\* Matcher.has_matches: next() on the generator; StopIteration means False,
\* any other exception propagates.
has_matches(m, a, t) ==
    LET fm == find_matches(m, a, t)
    IN  IF fm.err # "none" THEN [err |-> fm.err, out |-> FALSE]
        ELSE [err |-> "none", out |-> fm.out # <<>>]

\* ------------------------------------------------------------------- state
VARIABLES
    doc,        \* the text the caller wants converted
    pc,         \* "new" before Matcher(terms) is run, "ready" after
    terms,      \* Matcher.terms: the dict given to the constructor
    automaton,  \* Matcher.automaton: [kind, words]
    op,         \* the last method called
    text,       \* its text argument
    matches,    \* the list of Match it yielded (find_matches) or used
    result,     \* the text returned by replace_all
    found,      \* the value returned by has_matches
    err,        \* the exception the last call raised, or "none"
    pass,       \* 1 for a call on a fresh text, 2 for a call on the
                \* text a replace_all call has just returned
    prevText,   \* on pass 2: the text of that replace_all call
    prevMatches,\* on pass 2: the matches that call applied
    calls       \* the number of calls made on doc so far

matcherVars == <<doc, pc, terms, automaton, op, text, matches, result, found,
                 err, pass, prevText, prevMatches, calls>>

\* Two scans that share one Matcher (the generator frames of find_matches).
VARIABLES
    scans,      \* per scan: its position, text and the locals of its frame
    last_end    \* per frame slot: the last_end cursor of the walk

scanVars == <<scans, last_end>>

\* The caller of Matcher(terms) and its dict.
VARIABLES
    builtTerms, \* the entries the dict had when Matcher(terms) was run
    mutations   \* the number of changes the caller has made to it since

aliasVars == <<builtTerms, mutations>>

\* One call of find_matches_with_lines.
VARIABLES
    lpc,         \* its position
    ltext,       \* the text argument
    line_starts, \* the line-start table
    pending,     \* the matches find_matches has still to hand over
    at_pos, lo, hi, \* the argument and the locals of get_line_col
    yielded      \* the (match, line, column) records yielded so far

lineVars == <<lpc, ltext, line_starts, pending, at_pos, lo, hi, yielded>>

LineIdle ==
    /\ lpc = "idle"
    /\ ltext = <<>>
    /\ line_starts = <<>>
    /\ pending = <<>>
    /\ at_pos = 0
    /\ lo = 0
    /\ hi = 0
    /\ yielded = <<>>

\* One call of convert_text or convert_file.
VARIABLES
    cpc,        \* "idle", or which of the two has returned
    cterms,     \* the mapping the Matcher argument was built from
    ctext,      \* the text argument, or the file's content before the call
    cfix,       \* the fix argument
    cignored,   \* the ignored_lines in force
    creported,  \* the (match, line, column) records returned or reported
    cout,       \* the text returned by convert_text
    disk,       \* the file's content after the call
    writes,     \* the number of write_file calls made
    skipped     \* FileResult.skipped

convVars == <<cpc, cterms, ctext, cfix, cignored, creported, cout, disk, writes, skipped>>

ConvIdle ==
    /\ cpc = "idle"
    /\ cterms = <<>>
    /\ ctext = <<>>
    /\ cfix = FALSE
    /\ cignored = {}
    /\ creported = <<>>
    /\ cout = <<>>
    /\ disk = <<>>
    /\ writes = 0
    /\ skipped = FALSE

\* One call of get_ignored_lines.
VARIABLES
    ipc,                \* its position
    lines,              \* text.split("\n")
    line_num,           \* the 1-based number of the line the loop is at
    ignored,            \* the set being built
    in_disabled_block   \* the block flag

ignoreVars == <<ipc, lines, line_num, ignored, in_disabled_block>>

IgnoreIdle ==
    /\ ipc = "idle"
    /\ lines = <<>>
    /\ line_num = 0
    /\ ignored = {}
    /\ in_disabled_block = FALSE

\* One call of load_dictionary.
VARIABLES
    dpc,        \* "idle" or "returned"
    data_dir,   \* DATA_DIR: per source directory, its *.json files
    dargs,      \* the arguments sources, custom_path and include_builtin
    dmerged     \* the dict returned

dictVars == <<dpc, data_dir, dargs, dmerged>>

DictIdle ==
    /\ dpc = "idle"
    /\ data_dir = <<>>
    /\ dargs = <<>>
    /\ dmerged = <<>>

\* The config module in one process, and the config file.
VARIABLES
    cfg_pc,         \* "idle", "run", "reset" or "loaded"
    defaults,       \* the dict objects reachable from DEFAULT_CONFIG
    config_file,    \* the file at get_config_path()
    held,           \* the config dict the caller got from load_config
    config_ops      \* the number of calls made before reset_config

configVars == <<cfg_pc, defaults, config_file, held, config_ops>>

\* JSON values: scalars, and references to dict objects of the heap.
StrV(s) == [kind |-> "str", val |-> <<s>>]
IntV(s) == [kind |-> "int", val |-> <<s>>]
FloatV(s) == [kind |-> "float", val |-> <<s>>]
RefV(id) == [kind |-> "ref", val |-> id]

\* The three dict objects of the DEFAULT_CONFIG literal.
DEFAULT_CONFIG == <<"DEFAULT_CONFIG">>
DefaultLlm == <<"DEFAULT_CONFIG", "llm">>
DefaultLimits == <<"DEFAULT_CONFIG", "llm", "limits">>
DefaultIds == {DEFAULT_CONFIG, DefaultLlm, DefaultLimits}

DefaultHeap ==
    (DEFAULT_CONFIG :> ("llm" :> RefV(DefaultLlm)))
    @@ (DefaultLlm :> ("provider" :> StrV("gemini")
                       @@ "model" :> StrV("gemini-2.0-flash")
                       @@ "limits" :> RefV(DefaultLimits)))
    @@ (DefaultLimits :> ("daily_requests" :> IntV("100")
                          @@ "daily_cost_usd" :> FloatV("0.1")
                          @@ "monthly_cost_usd" :> FloatV("1.0")
                          @@ "warn_at_percent" :> IntV("80")))

EmptyHeap == [id \in {} |-> <<>>]
\* A JSON document: path -> scalar, or the dict marker.
DictV == [kind |-> "dict", val |-> <<>>]
EmptyDoc == [p \in {} |-> DictV]
NoConfigFile == [exists |-> FALSE, valid |-> FALSE, doc |-> EmptyDoc]
NotHeld == [given |-> FALSE, root |-> <<>>, heap |-> EmptyHeap]

ConfigIdle ==
    /\ cfg_pc = "idle"
    /\ defaults = DefaultHeap
    /\ config_file = NoConfigFile
    /\ held = NotHeld
    /\ config_ops = 0

\* The usage file, a GeminiClient with its UsageTracker, and the calls made.
VARIABLES
    upc,            \* "idle" or "ready"
    usage_file,     \* the file usage.json
    api_key,        \* whether GEMINI_API_KEY is set
    client_force,   \* GeminiClient.force
    client_limits,  \* llm.limits of the loaded config
    outcome,        \* the last call and what it returned or raised
    api_sent,       \* the number of API requests sent today
    record_calls,   \* the number of record calls since the last reset
    recorded_in,    \* the input tokens recorded since the last reset
    recorded_out,   \* the output tokens recorded since the last reset
    resets,         \* the number of reset calls
    usage_calls,    \* the number of calls made
    trackers        \* per concurrent tracker: its position in record and its locals

usageVars == <<upc, usage_file, api_key, client_force, client_limits, outcome,
               api_sent, record_calls, recorded_in, recorded_out, resets,
               usage_calls, trackers>>

NoCounters == [input_tokens |-> 0, output_tokens |-> 0, requests |-> 0, cost_usd |-> 0]
\* UsageTracker._empty_usage()
_empty_usage == [daily |-> [k \in {} |-> NoCounters],
                 monthly |-> [k \in {} |-> NoCounters],
                 total |-> NoCounters]
NoUsageFile == [exists |-> FALSE, valid |-> FALSE, data |-> _empty_usage]
NoOutcome == [op |-> "none", seq |-> 0, force |-> FALSE, raised |-> "none",
              can_proceed |-> TRUE, message |-> "None"]
NoTracker == [pc |-> "idle", usage |-> _empty_usage, input_tokens |-> 0,
              output_tokens |-> 0, done |-> 0]

UsageIdle ==
    /\ upc = "idle"
    /\ usage_file = NoUsageFile
    /\ api_key = FALSE
    /\ client_force = FALSE
    /\ client_limits = [k \in {} |-> 0]
    /\ outcome = NoOutcome
    /\ api_sent = 0
    /\ record_calls = 0
    /\ recorded_in = 0
    /\ recorded_out = 0
    /\ resets = 0
    /\ usage_calls = 0
    /\ trackers = [p \in {1, 2} |-> NoTracker]

\* The review command on one pending file.
VARIABLES
    rpc,             \* "idle", "prompt", "returned", "done" or "failed"
    pending_file,    \* the pending file: whether it is there, and its terms
    imported_file,   \* terms/cn/imported.json, the approved dictionary file
    review_flags,    \* interactive, auto_approve, auto_reject
    term_idx,        \* the position of the for loop in terms.items()
    approved_terms,  \* the local dict of review_pending_file
    review_result,   \* the ReviewResult being filled in
    decisions,       \* the terms decided so far, with the action of each
    prompts,         \* the number of input() calls made
    has_quit,        \* the reviewer quit
    last_input,      \* what the last input() call returned
    review_terms     \* the local terms of review_pending_file, as items()

reviewVars == <<rpc, pending_file, imported_file, review_flags, term_idx,
                approved_terms, review_result, decisions, prompts, has_quit,
                last_input, review_terms>>

\* {}: a dict of terms without entries
NoTerms == [k \in {} |-> ""]

\* ReviewResult()
NewReviewResult == [approved |-> 0, rejected |-> 0, skipped |-> 0, terms |-> NoTerms]

ReviewIdle ==
    /\ rpc = "idle"
    /\ pending_file = [exists |-> FALSE, terms |-> <<>>]
    /\ imported_file = [exists |-> FALSE, valid |-> FALSE, terms |-> NoTerms]
    /\ review_flags = [interactive |-> TRUE, auto_approve |-> FALSE, auto_reject |-> FALSE]
    /\ term_idx = 0
    /\ approved_terms = NoTerms
    /\ review_result = NewReviewResult
    /\ decisions = <<>>
    /\ prompts = 0
    /\ has_quit = FALSE
    /\ last_input = <<>>
    /\ review_terms = <<>>

\* The fix command on one directory.
VARIABLES
    fpc,             \* where the fix command is
    tree,            \* the files under the directory: path |-> content
    fix_opts,        \* the options of the command line
    check_issues,    \* the files of result.issues of the check pass
    fixing,          \* fix=... of the pass that is running
    to_process,      \* the files that the running pass has still to process
    copied,          \* the files that create_backup has copied
    modified_files   \* the files that the fix pass has written

fixVars == <<fpc, tree, fix_opts, check_issues, fixing, to_process, copied,
             modified_files>>

NoFixOpts == [backup |-> FALSE, dry_run |-> FALSE, show_diff |-> FALSE,
              json_output |-> FALSE, auto_yes |-> FALSE,
              exclude |-> [given |-> FALSE, names |-> {}]]

FixIdle ==
    /\ fpc = "idle"
    /\ tree = <<>>
    /\ fix_opts = NoFixOpts
    /\ check_issues = {}
    /\ fixing = FALSE
    /\ to_process = {}
    /\ copied = {}
    /\ modified_files = {}

vars == <<matcherVars, scanVars, aliasVars, lineVars, convVars, ignoreVars, dictVars, configVars, usageVars, reviewVars, fixVars>>

\* What the actions on one Matcher and one text leave alone.
matcherRest == <<scanVars, aliasVars, lineVars, convVars, ignoreVars, dictVars, configVars, usageVars, reviewVars, fixVars>>
\* What the scans of a shared Matcher leave alone.
scanRest == <<matcherVars, aliasVars, lineVars, convVars, ignoreVars, dictVars, configVars, usageVars, reviewVars, fixVars>>
aliasRest == <<scanVars, lineVars, convVars, ignoreVars, dictVars, configVars, usageVars, reviewVars, fixVars>>
lineRest == <<matcherVars, scanVars, aliasVars, convVars, ignoreVars, dictVars, configVars, usageVars, reviewVars, fixVars>>
convRest == <<matcherVars, scanVars, aliasVars, lineVars, ignoreVars, dictVars, configVars, usageVars, reviewVars, fixVars>>
ignoreRest == <<matcherVars, scanVars, aliasVars, lineVars, convVars, dictVars, configVars, usageVars, reviewVars, fixVars>>
dictRest == <<matcherVars, scanVars, aliasVars, lineVars, convVars, ignoreVars, configVars, usageVars, reviewVars, fixVars>>
configRest == <<matcherVars, scanVars, aliasVars, lineVars, convVars, ignoreVars, dictVars, usageVars, reviewVars, fixVars>>
usageRest == <<matcherVars, scanVars, aliasVars, lineVars, convVars, ignoreVars, dictVars, configVars, reviewVars, fixVars>>
reviewRest == <<matcherVars, scanVars, aliasVars, lineVars, convVars, ignoreVars, dictVars, configVars, usageVars, fixVars>>
fixRest == <<matcherVars, scanVars, aliasVars, lineVars, convVars, ignoreVars, dictVars, configVars, usageVars, reviewVars>>

Procs == {1, 2}

MatcherIdle ==
    /\ doc = <<>>
    /\ pc = "new"
    /\ terms = <<>>
    /\ automaton = NewAutomaton
    /\ op = "none"
    /\ text = <<>>
    /\ matches = <<>>
    /\ result = <<>>
    /\ found = FALSE
    /\ err = "none"
    /\ pass = 1
    /\ prevText = <<>>
    /\ prevMatches = <<>>
    /\ calls = 0

NoScan == [pc |-> "idle", text |-> <<>>, all |-> <<>>, protected |-> {},
           i |-> 0, out |-> <<>>, mixed |-> FALSE]

ScanIdle ==
    /\ scans = [p \in Procs |-> NoScan]
    /\ last_end = [p \in Procs |-> -1]

AliasIdle ==
    /\ builtTerms = <<>>
    /\ mutations = 0

\* ----------------------------------------------------------------- actions
Init ==
    /\ doc \in Texts
    /\ pc = "new"
    /\ terms = <<>>
    /\ automaton = NewAutomaton
    /\ op = "none"
    /\ text = <<>>
    /\ matches = <<>>
    /\ result = <<>>
    /\ found = FALSE
    /\ err = "none"
    /\ pass = 1
    /\ prevText = <<>>
    /\ prevMatches = <<>>
    /\ calls = 0
    /\ ScanIdle
    /\ AliasIdle
    /\ LineIdle
    /\ ConvIdle
    /\ IgnoreIdle
    /\ DictIdle
    /\ ConfigIdle
    /\ UsageIdle
    /\ ReviewIdle
    /\ FixIdle

\* Matcher(terms): __init__ keeps the dict and builds the automaton.
Build ==
    /\ pc = "new"
    /\ \E D \in TermDomains : \E m \in MappingsOver(D) :
          /\ terms' = m
          /\ automaton' = _build_automaton(m)
    /\ pc' = "ready"
    /\ op' = "__init__"
    /\ err' = "none"
    /\ UNCHANGED <<doc, text, matches, result, found, pass, prevText, prevMatches,
                   calls>>
    /\ UNCHANGED matcherRest

\* list(matcher.find_matches(doc))
FindMatches ==
    /\ pc = "ready"
    /\ calls < MaxCalls
    /\ LET r == find_matches(terms, automaton, doc)
       IN  /\ matches' = r.out
           /\ err' = r.err
    /\ text' = doc
    /\ op' = "find_matches"
    /\ result' = <<>>
    /\ found' = FALSE
    /\ pass' = 1
    /\ prevText' = <<>>
    /\ prevMatches' = <<>>
    /\ calls' = calls + 1
    /\ UNCHANGED <<doc, pc, terms, automaton>>
    /\ UNCHANGED matcherRest

\* matcher.replace_all(doc)
ReplaceAll ==
    /\ pc = "ready"
    /\ calls < MaxCalls
    /\ LET r == replace_all(terms, automaton, doc)
       IN  /\ matches' = r.matches
           /\ result' = r.out
           /\ err' = r.err
    /\ text' = doc
    /\ op' = "replace_all"
    /\ found' = FALSE
    /\ pass' = 1
    /\ prevText' = <<>>
    /\ prevMatches' = <<>>
    /\ calls' = calls + 1
    /\ UNCHANGED <<doc, pc, terms, automaton>>
    /\ UNCHANGED matcherRest

\* matcher.has_matches(doc)
HasMatches ==
    /\ pc = "ready"
    /\ calls < MaxCalls
    /\ LET r == has_matches(terms, automaton, doc)
       IN  /\ found' = r.out
           /\ err' = r.err
    /\ text' = doc
    /\ op' = "has_matches"
    /\ matches' = <<>>
    /\ result' = <<>>
    /\ pass' = 1
    /\ prevText' = <<>>
    /\ prevMatches' = <<>>
    /\ calls' = calls + 1
    /\ UNCHANGED <<doc, pc, terms, automaton>>
    /\ UNCHANGED matcherRest

\* A second pass: list(matcher.find_matches(r)) on the text r that the
\* replace_all call before has returned.
RescanFind ==
    /\ pc = "ready"
    /\ pass = 1
    /\ op = "replace_all"
    /\ err = "none"
    /\ LET r == find_matches(terms, automaton, result)
       IN  /\ matches' = r.out
           /\ err' = r.err
    /\ text' = result
    /\ prevText' = text
    /\ prevMatches' = matches
    /\ pass' = 2
    /\ op' = "find_matches"
    /\ result' = <<>>
    /\ found' = FALSE
    /\ UNCHANGED <<doc, pc, terms, automaton, calls>>
    /\ UNCHANGED matcherRest

\* A second pass: matcher.replace_all(r) on the text r that the replace_all
\* call before has returned.
RescanReplace ==
    /\ pc = "ready"
    /\ pass = 1
    /\ op = "replace_all"
    /\ err = "none"
    /\ LET r == replace_all(terms, automaton, result)
       IN  /\ matches' = r.matches
           /\ result' = r.out
           /\ err' = r.err
    /\ text' = result
    /\ prevText' = text
    /\ prevMatches' = matches
    /\ pass' = 2
    /\ op' = "replace_all"
    /\ found' = FALSE
    /\ UNCHANGED <<doc, pc, terms, automaton, calls>>
    /\ UNCHANGED matcherRest

Next ==
    \/ Build
    \/ FindMatches
    \/ ReplaceAll
    \/ HasMatches
    \/ RescanFind
    \/ RescanReplace

Spec == Init /\ [][Next]_vars

\* ------------------------------------------------------------ properties
\* Source term s occurs in text t at 0-based offset i.
Occurs(s, t, i) ==
    /\ i >= 0
    /\ i + Len(s) <= Len(t)
    /\ SubSeq(t, i + 1, i + Len(s)) = s

Offsets(i, s) == i .. (i + Len(s) - 1)

\* The occurrences <<offset, term>> in t of identity terms of mapping m.
\* An occurrence covers at least one character: the empty key has none.
IdentityOccurrences(m, t) ==
    {o \in (0..Len(t)) \X {s \in DOMAIN m : s # <<>> /\ m[s] = s} :
        Occurs(o[2], t, o[1])}

\* The occurrences in t of the other (converting) terms of m.
ConversionOccurrences(m, t) ==
    {o \in (0..Len(t)) \X {s \in DOMAIN m : s # <<>> /\ m[s] # s} :
        Occurs(o[2], t, o[1])}

Elems(seq) == {seq[i] : i \in 1..Len(seq)}

Returned(name) == op = name /\ err = "none"

\* Len(target) - Len(source), summed over the matches that end at or before
\* offset i: how far substitution moves the character at offset i.
RECURSIVE ShiftAt(_, _, _)
ShiftAt(ms, k, i) ==
    IF k = 0 THEN 0
    ELSE ShiftAt(ms, k - 1, i)
         + (IF ms[k].end <= i THEN Len(ms[k].target) - Len(ms[k].source) ELSE 0)

\* C1 (identity protection): no match that find_matches emits shares a
\* character offset with any occurrence in the text of an identity term,
\* claimed or not; and in the text replace_all returns, every identity
\* occurrence of the input is still there, character for character, at its
\* offset shifted by the replacements before it.
C1_IdentityProtection ==
    /\ (Returned("find_matches") \/ Returned("replace_all")) =>
          \A mt \in Elems(matches) : \A o \in IdentityOccurrences(terms, text) :
              Span(mt) \cap Offsets(o[1], o[2]) = {}
    /\ Returned("replace_all") =>
          \A o \in IdentityOccurrences(terms, text) :
              Occurs(o[2], result, o[1] + ShiftAt(matches, Len(matches), o[1]))

\* C1's case: replace_all changed the text while a conversion occurrence
\* overlapped an identity occurrence.
C1_Witness ==
    /\ Returned("replace_all")
    /\ result # text
    /\ \E o \in IdentityOccurrences(terms, text) :
          \E c \in ConversionOccurrences(terms, text) :
              Offsets(o[1], o[2]) \cap Offsets(c[1], c[2]) # {}

\* C2 as stated (longest match at an offset): whenever find_matches emits a
\* match starting at offset s, no strictly longer source term of the mapping
\* occurs in the text starting at s.
C2_LongestAtOffset ==
    Returned("find_matches") =>
        \A mt \in Elems(matches) : \A s \in DOMAIN terms :
            ~(Len(s) > Len(mt.source) /\ Occurs(s, text, mt.start))

\* C2 amended: whenever find_matches emits a match starting at offset s,
\* every strictly longer source term occurring at s is a conversion whose
\* span shares an offset with an occurrence of an identity term (it was
\* vetoed); with no identity entry in the mapping there is none.
C2_LongestUnlessVetoed ==
    Returned("find_matches") =>
        \A mt \in Elems(matches) : \A s \in DOMAIN terms :
            (Len(s) > Len(mt.source) /\ Occurs(s, text, mt.start)) =>
                /\ terms[s] # s
                /\ \E o \in IdentityOccurrences(terms, text) :
                      Offsets(mt.start, s) \cap Offsets(o[1], o[2]) # {}

\* C2's case: two source terms occur at the offset of an emitted match and
\* the emitted one is the longer.
C2_Witness ==
    /\ Returned("find_matches")
    /\ \E mt \in Elems(matches) : \E s \in DOMAIN terms :
          /\ s # <<>>
          /\ Len(s) < Len(mt.source)
          /\ Occurs(s, text, mt.start)

\* C3 (order and non-overlap): the emitted sequence has strictly ascending
\* starts and every match ends at or before the start of the next one.
C3_OrderedDisjoint ==
    Returned("find_matches") =>
        \A i \in 1..(Len(matches) - 1) :
            /\ matches[i].start < matches[i + 1].start
            /\ matches[i].end <= matches[i + 1].start

\* C3's case: find_matches emitted two matches while some occurrence
\* overlapped another.
C3_Witness ==
    /\ Returned("find_matches")
    /\ Len(matches) >= 2
    /\ \E c, d \in ConversionOccurrences(terms, text) :
          c # d /\ Offsets(c[1], c[2]) \cap Offsets(d[1], d[2]) # {}

\* The text t with each span of ms[i..] replaced by its target, built left
\* to right from offset pos on; ms is in ascending start order.
RECURSIVE Rebuilt(_, _, _, _)
Rebuilt(t, ms, i, pos) ==
    IF i > Len(ms) THEN SubSeq(t, pos + 1, Len(t))
    ELSE SubSeq(t, pos + 1, ms[i].start) \o ms[i].target
         \o Rebuilt(t, ms, i + 1, ms[i].end)

\* C4 (exact substitution): replace_all(text) is the text with every span
\* find_matches(text) returns replaced by its target and every other
\* character kept in place and order.
C4_ExactSubstitution ==
    Returned("replace_all") =>
        /\ matches = find_matches(terms, automaton, text).out
        /\ result = Rebuilt(text, matches, 1, 0)

\* C4's case: replace_all applied a target longer than its source and one
\* shorter than its source in one text.
C4_Witness ==
    /\ Returned("replace_all")
    /\ \E mt \in Elems(matches) : Len(mt.target) > Len(mt.source)
    /\ \E mt \in Elems(matches) : Len(mt.target) < Len(mt.source)
    /\ result # text

\* For each character of Rebuilt(t, ms, i, pos): its offset in t when it
\* is a kept character of t, -1 when it comes from a target.
RECURSIVE Origins(_, _, _, _)
Origins(t, ms, i, pos) ==
    IF i > Len(ms) THEN [k \in 1..(Len(t) - pos) |-> pos + k - 1]
    ELSE [k \in 1..(ms[i].start - pos) |-> pos + k - 1]
         \o [k \in 1..Len(ms[i].target) |-> -1]
         \o Origins(t, ms, i + 1, ms[i].end)

\* The occurrence of s at offset a of the substituted text is an occurrence
\* the original text already had: kept characters, adjacent in the original.
OldOccurrence(org, a, s) ==
    \A k \in 0..(Len(s) - 1) :
        /\ org[a + k + 1] >= 0
        /\ k > 0 => org[a + k + 1] = org[a + k] + 1

\* On a second pass: substitution has created no occurrence of a source
\* term that the first text did not have.
NoNewOccurrence ==
    LET org == Origins(prevText, prevMatches, 1, 0)
    IN  /\ Len(org) = Len(text)
        /\ \A s \in DOMAIN terms \ {<<>>} : \A a \in 0..Len(text) :
               Occurs(s, text, a) => OldOccurrence(org, a, s)

\* C5 (idempotence): when substitution creates no new occurrence of a
\* source term, a scan of the text replace_all returned finds no match, and
\* replace_all of that text returns it unchanged.
C5_Idempotence ==
    (pass = 2 /\ NoNewOccurrence) =>
        /\ err = "none"
        /\ matches = <<>>
        /\ op = "replace_all" => result = text

\* C5's case: the first pass replaced something, created no new occurrence,
\* and left an occurrence of a converting term in the text it returned.
C5_Witness ==
    /\ pass = 2
    /\ op = "replace_all"
    /\ NoNewOccurrence
    /\ prevMatches # <<>>
    /\ ConversionOccurrences(terms, text) # {}

\* C6 (identity matches are never emitted): every match find_matches emits
\* has a source different from its target.
C6_NoIdentityEmitted ==
    (Returned("find_matches") \/ Returned("replace_all")) =>
        \A mt \in Elems(matches) : mt.source # mt.target

\* C6's case: the text has an identity occurrence and find_matches emitted
\* other matches.
C6_Witness ==
    /\ Returned("find_matches")
    /\ IdentityOccurrences(terms, text) # {}
    /\ matches # <<>>

\* C7 (matches are real occurrences): every emitted match satisfies
\* 0 <= start < end <= len(text), end - start = len(source),
\* text[start:end] = source, and source -> target is an entry of the mapping.
C7_RealOccurrence ==
    Returned("find_matches") =>
        \A mt \in Elems(matches) :
            /\ 0 <= mt.start
            /\ mt.start < mt.end
            /\ mt.end <= Len(text)
            /\ mt.end - mt.start = Len(mt.source)
            /\ SubSeq(text, mt.start + 1, mt.end) = mt.source
            /\ mt.source \in DOMAIN terms
            /\ mt.target = terms[mt.source]

\* C7's case: a match of a two-character term that starts inside the text.
C7_Witness ==
    /\ Returned("find_matches")
    /\ \E mt \in Elems(matches) : mt.start > 0 /\ Len(mt.source) >= 2

\* No key of the mapping is a substring of the text.
CleanText(m, t) == \A s \in DOMAIN m : \A i \in 0..Len(t) : ~Occurs(s, t, i)

\* C8 (no false positives): on a text that contains no source term,
\* find_matches returns nothing, has_matches returns False and replace_all
\* returns the text unchanged.
C8_NoFalsePositives ==
    (pc = "ready" /\ calls > 0 /\ pass = 1 /\ CleanText(terms, text)) =>
        /\ err = "none"
        /\ op = "find_matches" => matches = <<>>
        /\ op = "has_matches" => found = FALSE
        /\ op = "replace_all" => result = text /\ matches = <<>>

\* C8's case: has_matches on a non-empty text with a non-empty mapping none
\* of whose keys is in the text.
C8_Witness ==
    /\ Returned("has_matches")
    /\ text # <<>>
    /\ DOMAIN terms # {}
    /\ CleanText(terms, text)

\* C9 (empty mapping): Matcher({}) is built without error, and on every
\* text find_matches returns nothing and replace_all returns the text.
C9_EmptyMapping ==
    (pc = "ready" /\ DOMAIN terms = {}) =>
        /\ err = "none"
        /\ op = "find_matches" => matches = <<>>
        /\ op = "replace_all" => result = text

\* C9's case: replace_all on a non-empty text with the empty mapping.
C9_Witness ==
    /\ pc = "ready"
    /\ DOMAIN terms = {}
    /\ op = "replace_all"
    /\ text # <<>>

\* C10 (an empty source key is rejected at build time): Matcher(terms)
\* with an empty key in terms raises ConfigurationError, so no Matcher is
\* produced and no scan runs on that mapping.
C10_EmptySourceRejected ==
    (op # "none" /\ <<>> \in DOMAIN terms) =>
        /\ err = "ConfigurationError"
        /\ pc = "new"

\* ------------------------------------------- scans sharing one Matcher
MaxScanLen == 2

ScanTexts == SeqsUpTo(Alphabet, MaxScanLen)
ScanSources == {<<"A">>, <<"B">>, <<"A", "B">>}
\* A shared Matcher's dict: each key is absent, an identity entry or a
\* conversion.
ScanMappings ==
    UNION {{m \in [D -> ScanSources \cup {<<"x">>}] :
               \A k \in D : m[k] \in {k, <<"x">>}} : D \in SUBSET ScanSources}

CursorSlot_Shared(p) == 1

\* matcher.py:99: last_end is a local of the generator frame of the call.
CursorSlot(p) == p

ScanInit ==
    /\ MatcherIdle
    /\ ScanIdle
    /\ AliasIdle
    /\ LineIdle
    /\ ConvIdle
    /\ IgnoreIdle
    /\ DictIdle
    /\ ConfigIdle
    /\ UsageIdle
    /\ ReviewIdle
    /\ FixIdle

\* Matcher(terms), the Matcher both scans use.
ScanBuild ==
    /\ pc = "new"
    /\ \E m \in ScanMappings :
          /\ terms' = m
          /\ automaton' = _build_automaton(m)
    /\ pc' = "ready"
    /\ op' = "__init__"
    /\ UNCHANGED <<doc, text, matches, result, found, err, pass, prevText,
                   prevMatches, calls>>
    /\ UNCHANGED matcherRest

Mixed(p) == \E q \in Procs \ {p} : scans[q].pc = "walk"

\* matcher.py:70-99: the first next() on the generator of find_matches(t)
\* runs to the start of the walk: guard, iter, sort, protected, last_end.
ScanStart(p) ==
    /\ pc = "ready"
    /\ scans[p].pc = "idle"
    /\ \E t \in ScanTexts :
          IF DOMAIN terms = {}
          THEN /\ scans' = [scans EXCEPT ![p] = [NoScan EXCEPT !.pc = "done",
                                                        !.text = t]]
               /\ UNCHANGED last_end
          ELSE IF IterRaises(automaton)
          THEN /\ scans' = [scans EXCEPT ![p] = [NoScan EXCEPT !.pc = "raised",
                                                        !.text = t]]
               /\ UNCHANGED last_end
          ELSE LET all == AllMatches(automaton, t)
               IN  /\ scans' = [scans EXCEPT ![p] =
                                   [pc |-> "walk", text |-> t, all |-> all,
                                    protected |-> Protected(all), i |-> 1,
                                    out |-> <<>>, mixed |-> FALSE]]
                   /\ last_end' = [last_end EXCEPT ![CursorSlot(p)] = -1]
    /\ UNCHANGED scanRest

\* matcher.py:100-109: one iteration of the walk.
ScanStep(p) ==
    /\ scans[p].pc = "walk"
    /\ scans[p].i <= Len(scans[p].all)
    /\ LET match == scans[p].all[scans[p].i]
           claimed == /\ NotOverlapped(match, last_end[CursorSlot(p)])
                      /\ ~Vetoed(match, scans[p].protected)
       IN  /\ scans' = [scans EXCEPT
                  ![p].i = @ + 1,
                  ![p].mixed = @ \/ Mixed(p),
                  ![p].out = IF claimed /\ Yielded(match)
                             THEN Append(@, match) ELSE @]
           /\ last_end' = IF claimed
                          THEN [last_end EXCEPT ![CursorSlot(p)] = match.end]
                          ELSE last_end
    /\ UNCHANGED scanRest

\* The walk is over: the generator is exhausted.
ScanEnd(p) ==
    /\ scans[p].pc = "walk"
    /\ scans[p].i > Len(scans[p].all)
    /\ scans' = [scans EXCEPT ![p].pc = "done"]
    /\ UNCHANGED last_end
    /\ UNCHANGED scanRest

ScanNext ==
    \/ ScanBuild
    \/ \E p \in Procs : ScanStart(p)
    \/ \E p \in Procs : ScanStep(p)
    \/ \E p \in Procs : ScanEnd(p)

ScanSpec == ScanInit /\ [][ScanNext]_vars

\* C11 (read-only under scanning): no step of a scan changes the Matcher's
\* terms or automaton, and whatever the interleaving of two scans of one
\* shared Matcher, each finished scan has yielded what find_matches yields
\* for its text when run alone.
C11_ScansIndependent ==
    /\ [](\A p \in Procs :
             /\ scans[p].pc = "done" =>
                   /\ find_matches(terms, automaton, scans[p].text).err = "none"
                   /\ scans[p].out = find_matches(terms, automaton, scans[p].text).out
             /\ scans[p].pc = "raised" =>
                   find_matches(terms, automaton, scans[p].text).err # "none")
    /\ [][pc = "ready" => (terms' = terms /\ automaton' = automaton)]_vars

\* C11's case: two scans of different texts have finished, each having
\* taken steps of its walk while the other was in its walk, and each
\* having yielded a match.
C11_Witness ==
    /\ \A p \in Procs : /\ scans[p].pc = "done"
                        /\ scans[p].mixed
                        /\ scans[p].out # <<>>
    /\ scans[1].text # scans[2].text

\* ------------------------------------- the caller's dict after Matcher()
MaxMutations == 1

AliasInit ==
    /\ doc \in ScanTexts
    /\ pc = "new"
    /\ terms = <<>>
    /\ automaton = NewAutomaton
    /\ op = "none"
    /\ text = <<>>
    /\ matches = <<>>
    /\ result = <<>>
    /\ found = FALSE
    /\ err = "none"
    /\ pass = 1
    /\ prevText = <<>>
    /\ prevMatches = <<>>
    /\ calls = 0
    /\ ScanIdle
    /\ AliasIdle
    /\ LineIdle
    /\ ConvIdle
    /\ IgnoreIdle
    /\ DictIdle
    /\ ConfigIdle
    /\ UsageIdle
    /\ ReviewIdle
    /\ FixIdle

\* matcher = Matcher(terms): self.terms is the caller's dict itself
\* (matcher.py:42), the automaton holds the entries it had (matcher.py:49-51).
AliasBuild ==
    /\ pc = "new"
    /\ \E m \in ScanMappings :
          /\ terms' = m
          /\ builtTerms' = m
          /\ automaton' = _build_automaton(m)
    /\ pc' = "ready"
    /\ op' = "__init__"
    /\ UNCHANGED <<doc, text, matches, result, found, err, pass, prevText,
                   prevMatches, calls, mutations>>
    /\ UNCHANGED aliasRest

\* The dict d without key k.
Without(d, k) == [j \in DOMAIN d \ {k} |-> d[j]]
\* The dict d after d[k] = v.
With(d, k, v) == [j \in DOMAIN d \cup {k} |-> IF j = k THEN v ELSE d[j]]

\* The caller, still holding the dict, runs terms.clear().
CallerClears ==
    /\ pc = "ready"
    /\ mutations < MaxMutations
    /\ terms' = [j \in {} |-> <<>>]
    /\ mutations' = mutations + 1
    /\ UNCHANGED <<doc, pc, automaton, op, text, matches, result, found, err,
                   pass, prevText, prevMatches, calls, builtTerms>>
    /\ UNCHANGED aliasRest

\* The caller runs del terms[k].
CallerDeletes ==
    /\ pc = "ready"
    /\ mutations < MaxMutations
    /\ \E k \in DOMAIN terms : terms' = Without(terms, k)
    /\ mutations' = mutations + 1
    /\ UNCHANGED <<doc, pc, automaton, op, text, matches, result, found, err,
                   pass, prevText, prevMatches, calls, builtTerms>>
    /\ UNCHANGED aliasRest

\* The caller runs terms[k] = v, adding or changing an entry.
CallerSets ==
    /\ pc = "ready"
    /\ mutations < MaxMutations
    /\ \E k \in ScanSources : \E v \in {k, <<"x">>} :
          /\ ~(k \in DOMAIN terms /\ terms[k] = v)
          /\ terms' = With(terms, k, v)
    /\ mutations' = mutations + 1
    /\ UNCHANGED <<doc, pc, automaton, op, text, matches, result, found, err,
                   pass, prevText, prevMatches, calls, builtTerms>>
    /\ UNCHANGED aliasRest

AliasNext ==
    \/ AliasBuild
    \/ CallerClears
    \/ CallerDeletes
    \/ CallerSets
    \/ FindMatches
    \/ ReplaceAll
    \/ HasMatches

AliasSpec == AliasInit /\ [][AliasNext]_vars

\* C12 (the index owns a copy of the mapping): whatever the caller does to
\* its dict after Matcher(terms) was constructed, find_matches and
\* replace_all return what they return on a Matcher whose dict still has
\* the entries it was built from.
C12_OwnsCopy ==
    (pc = "ready" /\ op \in {"find_matches", "replace_all"}) =>
        LET built == _build_automaton(builtTerms)
        IN  /\ err = find_matches(builtTerms, built, text).err
            /\ matches = find_matches(builtTerms, built, text).out
            /\ op = "replace_all" =>
                  result = replace_all(builtTerms, built, text).out

\* ------------------------------------------------ find_matches_with_lines
MaxLineLen == 4

NL == "\n"
LineTexts == SeqsUpTo({"A", NL}, MaxLineLen)
\* A term inside a line and a term that starts on a line break.
LineMappings == {(<<"A">> :> <<"x">>), (<<NL, "A">> :> <<"x">>)}

\* line_starts: offset 0, then the offset after every "\n", ascending.
RECURSIVE LineStartsFrom(_, _)
LineStartsFrom(t, i) ==
    IF i >= Len(t) THEN <<>>
    ELSE (IF t[i + 1] = NL THEN <<i + 1>> ELSE <<>>) \o LineStartsFrom(t, i + 1)

LineStarts(t) == <<0>> \o LineStartsFrom(t, 0)

Mid_Floor(l, h) == (l + h) \div 2

Mid(l, h) == (l + h + 1) \div 2

LineInit ==
    /\ MatcherIdle
    /\ ScanIdle
    /\ AliasIdle
    /\ LineIdle
    /\ ConvIdle
    /\ IgnoreIdle
    /\ DictIdle
    /\ ConfigIdle
    /\ UsageIdle
    /\ ReviewIdle
    /\ FixIdle

\* matcher = Matcher(terms); gen = matcher.find_matches_with_lines(text) and
\* the first next(): the table is built and find_matches is entered.
LineCall ==
    /\ lpc = "idle"
    /\ \E m \in LineMappings : \E t \in LineTexts :
          /\ ltext' = t
          /\ line_starts' = LineStarts(t)
          /\ pending' = find_matches(m, _build_automaton(m), t).out
    /\ lpc' = "next"
    /\ UNCHANGED <<at_pos, lo, hi, yielded>>
    /\ UNCHANGED lineRest

\* get_line_col(match.start) is entered for the next match.
LineEnter ==
    /\ lpc = "next"
    /\ pending # <<>>
    /\ at_pos' = Head(pending).start
    /\ lo' = 0
    /\ hi' = Len(line_starts) - 1
    /\ lpc' = "search"
    /\ UNCHANGED <<ltext, line_starts, pending, yielded>>
    /\ UNCHANGED lineRest

\* One iteration of "while lo < hi".
LineProbe ==
    /\ lpc = "search"
    /\ lo < hi
    /\ LET mid == Mid(lo, hi)
       IN  IF line_starts[mid + 1] <= at_pos
           THEN lo' = mid /\ hi' = hi
           ELSE hi' = mid - 1 /\ lo' = lo
    /\ UNCHANGED <<lpc, ltext, line_starts, pending, at_pos, yielded>>
    /\ UNCHANGED lineRest

\* The loop is left, get_line_col returns and the record is yielded.
LineYield ==
    /\ lpc = "search"
    /\ ~(lo < hi)
    /\ LET line == lo + 1
           col == at_pos - line_starts[lo + 1] + 1
       IN  yielded' = Append(yielded,
                             [match |-> Head(pending), line |-> line, col |-> col])
    /\ pending' = Tail(pending)
    /\ lpc' = "next"
    /\ UNCHANGED <<ltext, line_starts, at_pos, lo, hi>>
    /\ UNCHANGED lineRest

\* find_matches is exhausted.
LineStop ==
    /\ lpc = "next"
    /\ pending = <<>>
    /\ lpc' = "done"
    /\ UNCHANGED <<ltext, line_starts, pending, at_pos, lo, hi, yielded>>
    /\ UNCHANGED lineRest

LineNext ==
    \/ LineCall
    \/ LineEnter
    \/ LineProbe
    \/ LineYield
    \/ LineStop

LineSpec == LineInit /\ [][LineNext]_vars

\* The generator is driven to exhaustion by its consumer.
LineFairSpec == LineSpec /\ WF_vars(LineNext)

\* The number of "\n" among the first n characters of t.
Newlines(t, n) == Cardinality({i \in 1..n : t[i] = NL})
\* The offset of the first character of the line that holds offset n.
LineStartOf(t, n) ==
    LET after == {i \in 1..n : t[i] = NL}
    IN  IF after = {} THEN 0 ELSE CHOOSE i \in after : \A j \in after : j <= i

\* C13 (line/column mapping): every record yielded by
\* find_matches_with_lines has line = 1 + the number of "\n" before the
\* match's start and column = start - the offset of the first character of
\* that line + 1, and every binary search that is entered is left.
C13_LineColumn ==
    /\ [](\A k \in 1..Len(yielded) :
             LET y == yielded[k]
             IN  /\ y.line = 1 + Newlines(ltext, y.match.start)
                 /\ y.col = y.match.start - LineStartOf(ltext, y.match.start) + 1)
    /\ (lpc = "search" ~> lpc = "next")

\* Two matches on the third line, the later one in its second column.
C13_Witness ==
    /\ lpc = "done"
    /\ Len(yielded) = 2
    /\ yielded[1].line = 3
    /\ yielded[2].line = 3 /\ yielded[2].col = 2

\* ------------------------------------------------------------- converter
MaxConvLen == 3
MaxIgnoredLine == 2
MaxFileLen == 3

\* The directives, each one symbol of a text.
DisableLine == "zhtw:disable-line"
DisableNext == "zhtw:disable-next"
Disable == "zhtw:disable"
Enable == "zhtw:enable"
Directives == {DisableLine, DisableNext, Disable, Enable}

Contains(line, S) == \E i \in 1..Len(line) : line[i] \in S

\* IGNORE_LINE_PATTERN.search(line)
IGNORE_LINE_PATTERN(line) == Contains(line, {DisableLine})
\* IGNORE_NEXT_PATTERN.search(line)
IGNORE_NEXT_PATTERN(line) == Contains(line, {DisableNext})
\* IGNORE_START_PATTERN.search(line): "zhtw:disable" followed by a word
\* boundary, which the "-" of the two longer directives is as well.
IGNORE_START_PATTERN(line) == Contains(line, {Disable, DisableLine, DisableNext})
\* IGNORE_END_PATTERN.search(line)
IGNORE_END_PATTERN(line) == Contains(line, {Enable})

\* CHINESE_PATTERN.search(text): "A" and "B" stand for Chinese characters.
contains_chinese(t) == Contains(t, Alphabet)

\* text.split("\n")
RECURSIVE Split(_)
Split(t) ==
    IF ~Contains(t, {NL}) THEN <<t>>
    ELSE LET i == CHOOSE j \in 1..Len(t) :
                     t[j] = NL /\ \A k \in 1..(j - 1) : t[k] # NL
         IN  <<SubSeq(t, 1, i - 1)>> \o Split(SubSeq(t, i + 1, Len(t)))

\* "\n".join(the_lines)
RECURSIVE Join(_)
Join(the_lines) ==
    IF the_lines = <<>> THEN <<>>
    ELSE IF Len(the_lines) = 1 THEN the_lines[1]
    ELSE the_lines[1] \o <<NL>> \o Join(Tail(the_lines))

\* One iteration of the loop of get_ignored_lines on line number n.
IgnoreStep(st, line, n) ==
    IF /\ IGNORE_START_PATTERN(line)
       /\ ~IGNORE_LINE_PATTERN(line)
       /\ ~IGNORE_NEXT_PATTERN(line)
    THEN [ignored |-> st.ignored, in_disabled_block |-> TRUE]
    ELSE IF IGNORE_END_PATTERN(line)
    THEN [ignored |-> st.ignored, in_disabled_block |-> FALSE]
    ELSE IF st.in_disabled_block
    THEN [ignored |-> st.ignored \cup {n}, in_disabled_block |-> TRUE]
    ELSE [ignored |-> st.ignored
                        \cup (IF IGNORE_LINE_PATTERN(line) THEN {n} ELSE {})
                        \cup (IF IGNORE_NEXT_PATTERN(line) THEN {n + 1} ELSE {}),
          in_disabled_block |-> FALSE]

RECURSIVE IgnoreLoop(_, _, _)
IgnoreLoop(the_lines, n, st) ==
    IF n > Len(the_lines) THEN st
    ELSE IgnoreLoop(the_lines, n + 1, IgnoreStep(st, the_lines[n], n))

get_ignored_lines(t) ==
    IgnoreLoop(Split(t), 1, [ignored |-> {}, in_disabled_block |-> FALSE]).ignored

\* get_line_col(pos) of find_matches_with_lines, the index it leaves in lo.
RECURSIVE BinarySearch(_, _, _, _)
BinarySearch(ls, p, l, h) ==
    IF l < h
    THEN LET mid == Mid(l, h)
         IN  IF ls[mid + 1] <= p THEN BinarySearch(ls, p, mid, h)
             ELSE BinarySearch(ls, p, l, mid - 1)
    ELSE l

get_line_col(ls, p) ==
    LET l == BinarySearch(ls, p, 0, Len(ls) - 1)
    IN  [line |-> l + 1, col |-> p - ls[l + 1] + 1]

\* list(matcher.find_matches_with_lines(text))
find_matches_with_lines(m, a, t) ==
    LET ms == find_matches(m, a, t).out
        ls == LineStarts(t)
    IN  [k \in 1..Len(ms) |->
            [match |-> ms[k],
             line |-> get_line_col(ls, ms[k].start).line,
             col |-> get_line_col(ls, ms[k].start).col]]

RECURSIVE NotIgnored(_, _)
NotIgnored(all, I) ==
    IF all = <<>> THEN <<>>
    ELSE (IF Head(all).line \notin I THEN <<Head(all)>> ELSE <<>>)
            \o NotIgnored(Tail(all), I)

RECURSIVE ReplaceLines(_, _, _, _, _)
ReplaceLines(m, a, the_lines, n, I) ==
    IF n > Len(the_lines) THEN <<>>
    ELSE <<IF n \in I THEN the_lines[n] ELSE replace_all(m, a, the_lines[n]).out>>
            \o ReplaceLines(m, a, the_lines, n + 1, I)

_replace_with_ignores(m, a, t, I) ==
    IF I = {} THEN replace_all(m, a, t).out
    ELSE Join(ReplaceLines(m, a, Split(t), 1, I))

ShouldReplace_WhenMatches(fix, ms) == ms # <<>>

\* "if fix and matches" of convert_text
ShouldReplace(fix, ms) == fix /\ ms # <<>>

\* "if fix and matches" of convert_file
ShouldWrite(fix, ms) == fix /\ ms # <<>>

convert_text(m, a, t, fix, I) ==
    LET ms == NotIgnored(find_matches_with_lines(m, a, t), I)
    IN  [text |-> IF ShouldReplace(fix, ms) THEN _replace_with_ignores(m, a, t, I)
                  ELSE t,
         matches |-> ms]

ConvTexts == SeqsUpTo({"A", "B", NL}, MaxConvLen)
\* Terms inside a line and a term that spans a line break; every key is
\* non-empty, so the scan of the built Matcher raises nothing.
ConvSources == {<<"A">>, <<"B">>, <<"A", NL, "B">>}
ConvMappings ==
    UNION {[D -> {<<"x">>, <<"B">>}] : D \in SUBSET ConvSources}
FileTexts == SeqsUpTo({"A", NL} \cup Directives, MaxFileLen)
FileMappings == {(<<"A">> :> <<"x">>), (<<"A">> :> <<"A">>)}

ConvInit ==
    /\ MatcherIdle
    /\ ScanIdle
    /\ AliasIdle
    /\ LineIdle
    /\ ConvIdle
    /\ IgnoreIdle
    /\ DictIdle
    /\ ConfigIdle
    /\ UsageIdle
    /\ ReviewIdle
    /\ FixIdle

\* convert_text(text, Matcher(terms), fix, ignored_lines)
ConvertText ==
    /\ cpc = "idle"
    /\ \E m \in ConvMappings : \E t \in ConvTexts : \E fix \in BOOLEAN :
       \E I \in SUBSET (1..MaxIgnoredLine) :
          LET r == convert_text(m, _build_automaton(m), t, fix, I)
          IN  /\ cterms' = m
              /\ ctext' = t
              /\ cfix' = fix
              /\ cignored' = I
              /\ creported' = r.matches
              /\ cout' = r.text
    /\ cpc' = "convert_text"
    /\ UNCHANGED <<disk, writes, skipped>>
    /\ UNCHANGED convRest

\* convert_file(path, Matcher(terms), fix) on a file that decodes to content
ConvertFile ==
    /\ cpc = "idle"
    /\ \E m \in FileMappings : \E content \in FileTexts : \E fix \in BOOLEAN :
          /\ cterms' = m
          /\ ctext' = content
          /\ cfix' = fix
          /\ IF ~contains_chinese(content)
             THEN /\ skipped' = TRUE
                  /\ disk' = content
                  /\ UNCHANGED <<cignored, creported, cout, writes>>
             ELSE LET I == get_ignored_lines(content)
                      r == convert_text(m, _build_automaton(m), content, fix, I)
                  IN  /\ cignored' = I
                      /\ creported' = r.matches
                      /\ cout' = r.text
                      /\ skipped' = FALSE
                      /\ IF ShouldWrite(fix, r.matches)
                         THEN disk' = r.text /\ writes' = writes + 1
                         ELSE disk' = content /\ writes' = writes
    /\ cpc' = "convert_file"
    /\ UNCHANGED convRest

ConvNext ==
    \/ ConvertText
    \/ ConvertFile

ConvSpec == ConvInit /\ [][ConvNext]_vars

\* Len(target) - Len(source), summed over the first k records of rep.
RECURSIVE GrowthOf(_, _)
GrowthOf(rep, k) ==
    IF k = 0 THEN 0
    ELSE GrowthOf(rep, k - 1)
            + Len(rep[k].match.target) - Len(rep[k].match.source)

\* The k-th reported match has its target in the returned text, at its start
\* moved by the growth of the reported matches before it.
SubstitutedIn(out, rep, k) ==
    LET s == rep[k].match.start + GrowthOf(rep, k - 1)
        tgt == rep[k].match.target
    IN  /\ s + Len(tgt) <= Len(out)
        /\ SubSeq(out, s + 1, s + Len(tgt)) = tgt

\* C14 (line suppression): convert_text reports no match on a line of the
\* ignored set; with fix=True every ignored line is unchanged in the
\* returned text and every match on another line is substituted.
C14_LineSuppression ==
    cpc = "convert_text" =>
        /\ \A k \in 1..Len(creported) : creported[k].line \notin cignored
        /\ cfix =>
              /\ \A n \in cignored :
                    n <= Len(Split(ctext)) =>
                        /\ n <= Len(Split(cout))
                        /\ Split(cout)[n] = Split(ctext)[n]
              /\ \A k \in 1..Len(creported) : SubstitutedIn(cout, creported, k)

\* C15 (check mode changes nothing): with fix=False convert_text returns its
\* text argument unchanged and reports what it reports with fix=True;
\* convert_file with fix=False writes nothing, and whenever convert_file
\* writes, fix is True and at least one non-ignored match was reported.
C15_CheckModeChangesNothing ==
    /\ (cpc = "convert_text" /\ ~cfix) =>
          /\ cout = ctext
          /\ creported = convert_text(cterms, _build_automaton(cterms), ctext,
                                      TRUE, cignored).matches
    /\ cpc = "convert_file" =>
          /\ ~cfix => (writes = 0 /\ disk = ctext)
          /\ writes > 0 => (cfix /\ creported # <<>>)
          /\ writes = 0 => disk = ctext

\* A file checked with fix=False that has a reported match and an ignored
\* line, and is left as it was.
C15_Witness ==
    /\ cpc = "convert_file"
    /\ ~cfix
    /\ creported # <<>>
    /\ cignored # {}
    /\ Substitute(ctext, [k \in 1..Len(creported) |-> creported[k].match]) # ctext
    /\ disk = ctext

\* ----------------------------------------------------- get_ignored_lines
MaxDirLen == 4

DirTexts == SeqsUpTo({"A", NL} \cup Directives, MaxDirLen)

IgnoreInit ==
    /\ MatcherIdle
    /\ ScanIdle
    /\ AliasIdle
    /\ LineIdle
    /\ ConvIdle
    /\ IgnoreIdle
    /\ DictIdle
    /\ ConfigIdle
    /\ UsageIdle
    /\ ReviewIdle
    /\ FixIdle

\* get_ignored_lines(text) up to the loop
IgnoreCall ==
    /\ ipc = "idle"
    /\ \E t \in DirTexts : lines' = Split(t)
    /\ line_num' = 1
    /\ ignored' = {}
    /\ in_disabled_block' = FALSE
    /\ ipc' = "loop"
    /\ UNCHANGED ignoreRest

\* One iteration of "for i, line in enumerate(lines)".
IgnoreLine ==
    /\ ipc = "loop"
    /\ line_num <= Len(lines)
    /\ LET st == IgnoreStep([ignored |-> ignored,
                             in_disabled_block |-> in_disabled_block],
                            lines[line_num], line_num)
       IN  /\ ignored' = st.ignored
           /\ in_disabled_block' = st.in_disabled_block
    /\ line_num' = line_num + 1
    /\ UNCHANGED <<ipc, lines>>
    /\ UNCHANGED ignoreRest

\* return ignored
IgnoreReturn ==
    /\ ipc = "loop"
    /\ line_num > Len(lines)
    /\ ipc' = "done"
    /\ UNCHANGED <<lines, line_num, ignored, in_disabled_block>>
    /\ UNCHANGED ignoreRest

IgnoreNext ==
    \/ IgnoreCall
    \/ IgnoreLine
    \/ IgnoreReturn

IgnoreSpec == IgnoreInit /\ [][IgnoreNext]_vars

\* C16 (disable-line ignores its line): every line that contains
\* zhtw:disable-line is in the set get_ignored_lines returns, whatever else
\* is on the line and inside or outside a block.
C16_DisableLine ==
    ipc = "done" =>
        \A n \in 1..Len(lines) : IGNORE_LINE_PATTERN(lines[n]) => n \in ignored

\* C17 (disable-next ignores the next line): the line after every line that
\* contains zhtw:disable-next is in the returned set, and the iteration on
\* the directive's line adds neither the line two below nor, unless the line
\* is in a block or carries disable-line, the directive's line itself.
C17_DisableNext ==
    /\ [](ipc = "done" =>
             \A n \in 1..(Len(lines) - 1) :
                 IGNORE_NEXT_PATTERN(lines[n]) => (n + 1) \in ignored)
    /\ [][(ipc = "loop" /\ line_num <= Len(lines)
              /\ IGNORE_NEXT_PATTERN(lines[line_num])) =>
             /\ (line_num + 2) \notin (ignored' \ ignored)
             /\ line_num \in (ignored' \ ignored) =>
                   (in_disabled_block \/ IGNORE_LINE_PATTERN(lines[line_num]))]_vars

\* A line that opens a block.
BlockStart(line) ==
    /\ IGNORE_START_PATTERN(line)
    /\ ~IGNORE_LINE_PATTERN(line)
    /\ ~IGNORE_NEXT_PATTERN(line)

\* C18 (disable ... enable ignores a block): once the loop has passed them,
\* every line after a block-start line with no zhtw:enable line from the line
\* after the start up to and including it is in the set; with no enable line
\* at all that is every line to the end of the text.
C18_Block ==
    \A s \in 1..Len(lines) : \A j \in (s + 1)..Len(lines) :
        (/\ ipc \in {"loop", "done"}
         /\ j < line_num
         /\ BlockStart(lines[s])
         /\ \A k \in (s + 1)..j : ~IGNORE_END_PATTERN(lines[k]))
            => j \in ignored

\* ------------------------------------------------------------ dictionary
EmptyDict == [k \in {} |-> ""]

\* A JSON value of a terms file: a string, or the extended object with a
\* "target" member.
Str(t) == [kind |-> "str", target |-> t]
Ext(t) == [kind |-> "dict", target |-> t]

\* The documents a terms file may hold: simple format, or under a "terms"
\* member.
Doc(wrapped, entries) == [terms_key |-> wrapped, entries |-> entries]
FileDocs ==
    { Doc(FALSE, EmptyDict),
      Doc(FALSE, ("p" :> Str("u"))),
      Doc(FALSE, ("p" :> Str("v"))),
      Doc(FALSE, ("q" :> Str("u"))),
      Doc(FALSE, ("p" :> Str("u") @@ "q" :> Str("v"))),
      Doc(TRUE, ("p" :> Ext("v") @@ "q" :> Str("u"))) }

\* File names in the order sorted() gives them.
NameOrder == <<"a.json", "b.json">>
CnNames == {"a.json", "b.json"}
HkNames == {"a.json"}
Dirs(names) == UNION {[D -> FileDocs] : D \in SUBSET names}

NoFile == [given |-> FALSE, exists |-> FALSE, doc |-> Doc(FALSE, EmptyDict)]
NoSuchFile == [given |-> TRUE, exists |-> FALSE, doc |-> Doc(FALSE, EmptyDict)]
CustomArgs ==
    {NoFile, NoSuchFile} \cup {[given |-> TRUE, exists |-> TRUE, doc |-> d] : d \in FileDocs}
\* sources: None, or a list; "xx" names no directory.
SourcesArgs ==
    { [given |-> FALSE, list |-> <<>>],
      [given |-> TRUE, list |-> <<"cn">>],
      [given |-> TRUE, list |-> <<"hk", "cn">>],
      [given |-> TRUE, list |-> <<"xx", "hk">>] }

Update_KeepFirst(a, b) ==
    [k \in DOMAIN a \cup DOMAIN b |-> IF k \in DOMAIN a THEN a[k] ELSE b[k]]

\* a.update(b)
Update(a, b) ==
    [k \in DOMAIN a \cup DOMAIN b |-> IF k \in DOMAIN b THEN b[k] ELSE a[k]]

\* load_json_file on a file that exists and holds doc
load_json_file(data) == [k \in DOMAIN data.entries |-> data.entries[k].target]

\* sorted(directory.glob("*.json"))
SortedGlob(dir) == SelectSeq(NameOrder, LAMBDA n : n \in DOMAIN dir)

RECURSIVE MergeFiles(_, _, _, _)
MergeFiles(dir, files, i, merged) ==
    IF i > Len(files) THEN merged
    ELSE MergeFiles(dir, files, i + 1, Update(merged, load_json_file(dir[files[i]])))

\* load_directory(DATA_DIR / source)
load_directory(dd, source) ==
    IF source \notin DOMAIN dd THEN EmptyDict
    ELSE MergeFiles(dd[source], SortedGlob(dd[source]), 1, EmptyDict)

RECURSIVE MergeSources(_, _, _, _)
MergeSources(dd, sources, i, merged) ==
    IF i > Len(sources) THEN merged
    ELSE MergeSources(dd, sources, i + 1, Update(merged, load_directory(dd, sources[i])))

load_builtin(dd, sources) ==
    LET list == IF sources.given THEN sources.list ELSE <<"cn", "hk">>
    IN  MergeSources(dd, list, 1, EmptyDict)

load_custom(custom) ==
    IF custom.exists THEN load_json_file(custom.doc) ELSE EmptyDict

load_dictionary(dd, sources, custom, include_builtin) ==
    LET builtin == IF include_builtin
                   THEN Update(EmptyDict, load_builtin(dd, sources))
                   ELSE EmptyDict
    IN  IF custom.given THEN Update(builtin, load_custom(custom)) ELSE builtin

DictInit ==
    /\ MatcherIdle
    /\ ScanIdle
    /\ AliasIdle
    /\ LineIdle
    /\ ConvIdle
    /\ IgnoreIdle
    /\ DictIdle
    /\ ConfigIdle
    /\ UsageIdle
    /\ ReviewIdle
    /\ FixIdle

\* load_dictionary(sources, custom_path, include_builtin)
LoadDictionary ==
    /\ dpc = "idle"
    /\ \E cn \in Dirs(CnNames) : \E hk \in Dirs(HkNames) :
       \E src \in SourcesArgs : \E cus \in CustomArgs : \E inc \in BOOLEAN :
          LET dd == ("cn" :> cn @@ "hk" :> hk)
          IN  /\ data_dir' = dd
              /\ dargs' = [sources |-> src, custom |-> cus, include_builtin |-> inc]
              /\ dmerged' = load_dictionary(dd, src, cus, inc)
    /\ dpc' = "returned"
    /\ UNCHANGED dictRest

DictNext == LoadDictionary

DictSpec == DictInit /\ [][DictNext]_vars

\* The entries of the dictionaries in the order the claim gives: built-in
\* sources as listed, files in name order inside each, then the custom file.
RECURSIVE FilesOf(_, _)
FilesOf(dir, names) ==
    IF names = <<>> THEN <<>>
    ELSE <<dir[Head(names)].entries>> \o FilesOf(dir, Tail(names))

RECURSIVE BuiltinOrder(_, _)
BuiltinOrder(dd, list) ==
    IF list = <<>> THEN <<>>
    ELSE (IF Head(list) \in DOMAIN dd
          THEN FilesOf(dd[Head(list)], SortedGlob(dd[Head(list)]))
          ELSE <<>>) \o BuiltinOrder(dd, Tail(list))

LoadOrder ==
    (IF dargs.include_builtin
     THEN BuiltinOrder(data_dir, IF dargs.sources.given THEN dargs.sources.list
                                 ELSE <<"cn", "hk">>)
     ELSE <<>>)
    \o (IF dargs.custom.given /\ dargs.custom.exists
        THEN <<dargs.custom.doc.entries>> ELSE <<>>)

\* C19 (last writer wins): the returned mapping has exactly the keys of the
\* dictionaries loaded, each once, and each key's target is the one in the
\* last dictionary of the load order that has the key.
C19_LastWriterWins ==
    dpc = "returned" =>
        LET order == LoadOrder
        IN  /\ DOMAIN dmerged = UNION {DOMAIN order[i] : i \in 1..Len(order)}
            /\ \A k \in DOMAIN dmerged :
                  \E i \in 1..Len(order) :
                      /\ k \in DOMAIN order[i]
                      /\ dmerged[k] = order[i][k].target
                      /\ \A j \in (i + 1)..Len(order) : k \notin DOMAIN order[j]

\* The custom file overrides a key that both built-in sources define, and a
\* later file of a source overrides an earlier one.
C19_Witness ==
    /\ dpc = "returned"
    /\ dargs.include_builtin
    /\ dargs.custom.exists
    /\ "p" \in DOMAIN dargs.custom.doc.entries
    /\ Len(LoadOrder) = 4
    /\ \A i \in 1..4 : "p" \in DOMAIN LoadOrder[i]
    /\ \A i \in 1..3 : LoadOrder[i]["p"].target # LoadOrder[i + 1]["p"].target
    /\ "q" \in DOMAIN dmerged
    /\ "q" \notin DOMAIN dargs.custom.doc.entries

\* ---------------------------------------------------------------- config
MaxConfigOps == 2

\* json.dump(config, f): the document of the dict object root.
RECURSIVE DumpKeys(_, _, _, _)
DumpKeys(h, id, p, keys) ==
    IF keys = {} THEN EmptyDoc
    ELSE LET k == CHOOSE x \in keys : TRUE
             v == h[id][k]
             q == Append(p, k)
             here == IF v.kind = "ref"
                     THEN (q :> DictV) @@ DumpKeys(h, v.val, q, DOMAIN h[v.val])
                     ELSE (q :> v)
         IN  here @@ DumpKeys(h, id, p, keys \ {k})

json_dump(h, root) == (<<>> :> DictV) @@ DumpKeys(h, root, <<>>, DOMAIN h[root])

\* json.load(f): fresh dict objects, one per dict of the document.
UserId(p) == <<"user_config">> \o p
Children(d, p) ==
    {q \in DOMAIN d : Len(q) = Len(p) + 1 /\ SubSeq(q, 1, Len(p)) = p}
json_load(d) ==
    [id \in {UserId(p) : p \in {q \in DOMAIN d : d[q].kind = "dict"}} |->
        LET p == Tail(id)
        IN  [k \in {q[Len(q)] : q \in Children(d, p)} |->
                LET v == d[Append(p, k)]
                IN  IF v.kind = "dict" THEN RefV(UserId(Append(p, k))) ELSE v]]

\* dict.copy() and the result dicts of _deep_merge are fresh objects.
CopyId == <<"copy">>
MergeId(p) == <<"result">> \o p

\* _deep_merge(base, override): the objects it creates; the result is the
\* object MergeId(p). Members that are not merged are shared, not copied.
RECURSIVE _deep_merge(_, _, _, _)
RECURSIVE MergeKeys(_, _, _, _, _)
_deep_merge(h, base, override, p) ==
    LET both == {k \in DOMAIN h[override] \cap DOMAIN h[base] :
                    h[base][k].kind = "ref" /\ h[override][k].kind = "ref"}
        merged == [k \in DOMAIN h[base] \cup DOMAIN h[override] |->
                      IF k \in both THEN RefV(MergeId(Append(p, k)))
                      ELSE IF k \in DOMAIN h[override] THEN h[override][k]
                      ELSE h[base][k]]
    IN  (MergeId(p) :> merged) @@ MergeKeys(h, base, override, p, both)

MergeKeys(h, base, override, p, keys) ==
    IF keys = {} THEN EmptyHeap
    ELSE LET k == CHOOSE x \in keys : TRUE
         IN  _deep_merge(h, h[base][k].val, h[override][k].val, Append(p, k))
                @@ MergeKeys(h, base, override, p, keys \ {k})

\* DEFAULT_CONFIG.copy(): a new top-level dict with the same members.
ShallowCopy(h) == (CopyId :> h[DEFAULT_CONFIG])

\* load_config(): the heap after the call and the dict it returns.
load_config(d, file) ==
    IF file.exists /\ file.valid
    THEN LET h0 == d @@ ShallowCopy(d) @@ json_load(file.doc)
         IN  [heap |-> h0 @@ _deep_merge(h0, CopyId, UserId(<<>>), <<>>),
              root |-> MergeId(<<>>)]
    ELSE [heap |-> d @@ ShallowCopy(d), root |-> CopyId]

\* obj[k] = v on the dict object id
Put(h, id, k, v) ==
    [j \in DOMAIN h |->
        IF j = id
        THEN [kk \in DOMAIN h[id] \cup {k} |-> IF kk = k THEN v ELSE h[id][kk]]
        ELSE h[j]]

\* The loop over keys[:-1] of set_config_value.
RECURSIVE Navigate(_, _, _, _)
Navigate(h, current, keys, i) ==
    IF i >= Len(keys) THEN [heap |-> h, current |-> current]
    ELSE LET k == keys[i]
         IN  IF k \notin DOMAIN h[current]
             THEN LET new == <<"new">> \o SubSeq(keys, 1, i)
                  IN  Navigate(Put(h @@ (new :> <<>>), current, k, RefV(new)),
                               new, keys, i + 1)
             ELSE Navigate(h, h[current][k].val, keys, i + 1)

\* The command-line values, and what int() and float() make of them.
ConfigValues == {"x", "7"}
Numerals == {"7"}
\* The conversion of set_config_value (config.py:100-107).
Convert(obj, final_key, value) ==
    IF final_key \in DOMAIN obj /\ obj[final_key].kind \in {"int", "float"}
    THEN IF value \notin Numerals THEN StrV(value)
         ELSE IF obj[final_key].kind = "int" THEN IntV(value)
         ELSE FloatV(value)
    ELSE StrV(value)

Restrict(h, ids) == [id \in ids |-> h[id]]

ConfigFile(d) == [exists |-> TRUE, valid |-> TRUE, doc |-> d]

\* set_config_value(key, value): the default objects and the file after it.
set_config_value(d, file, keys, value) ==
    LET config == load_config(d, file)
        nav == Navigate(config.heap, config.root, keys, 1)
        final_key == keys[Len(keys)]
        h == Put(nav.heap, nav.current, final_key,
                 Convert(nav.heap[nav.current], final_key, value))
    IN  [defaults |-> Restrict(h, DefaultIds),
         file |-> ConfigFile(json_dump(h, config.root))]

\* reset_config(): save_config(DEFAULT_CONFIG.copy())
reset_config(d) == ConfigFile(json_dump(d @@ ShallowCopy(d), CopyId))

\* The keys set in a run, split at the dots.
ConfigKeys ==
    { <<"llm", "model">>,
      <<"llm", "limits", "daily_requests">>,
      <<"extra", "k">> }
\* Documents a caller saves, and files found at the start.
CallerDocs ==
    { (<<>> :> DictV) @@ (<<"custom">> :> StrV("value")),
      (<<>> :> DictV) @@ (<<"llm">> :> DictV) @@ (<<"llm", "model">> :> StrV("test-model")) }
StartFiles ==
    {NoConfigFile, [exists |-> TRUE, valid |-> FALSE, doc |-> EmptyDoc]}
        \cup {ConfigFile(d) : d \in CallerDocs}

ConfigInit ==
    /\ MatcherIdle
    /\ ScanIdle
    /\ AliasIdle
    /\ LineIdle
    /\ ConvIdle
    /\ IgnoreIdle
    /\ DictIdle
    /\ ConfigIdle
    /\ UsageIdle
    /\ ReviewIdle
    /\ FixIdle

\* The process starts, zhtw.config is imported; the file is what an earlier
\* run left.
ConfigStart ==
    /\ cfg_pc = "idle"
    /\ config_file' \in StartFiles
    /\ cfg_pc' = "run"
    /\ UNCHANGED <<defaults, held, config_ops>>
    /\ UNCHANGED configRest

\* config = load_config()
LoadConfig ==
    /\ cfg_pc = "run"
    /\ config_ops < MaxConfigOps
    /\ LET r == load_config(defaults, config_file)
       IN  held' = [given |-> TRUE, root |-> r.root,
                    heap |-> Restrict(r.heap, DOMAIN r.heap \ DefaultIds)]
    /\ config_ops' = config_ops + 1
    /\ UNCHANGED <<cfg_pc, defaults, config_file>>
    /\ UNCHANGED configRest

\* save_config(config), with the dict held or with a dict of the caller's
SaveConfig ==
    /\ cfg_pc = "run"
    /\ config_ops < MaxConfigOps
    /\ \/ /\ held.given
          /\ config_file' = ConfigFile(json_dump(defaults @@ held.heap, held.root))
       \/ \E d \in CallerDocs : config_file' = ConfigFile(d)
    /\ config_ops' = config_ops + 1
    /\ UNCHANGED <<cfg_pc, defaults, held>>
    /\ UNCHANGED configRest

\* set_config_value(key, value)
SetConfigValue ==
    /\ cfg_pc = "run"
    /\ config_ops < MaxConfigOps
    /\ \E keys \in ConfigKeys : \E value \in ConfigValues :
          LET r == set_config_value(defaults, config_file, keys, value)
          IN  /\ defaults' = r.defaults
              /\ config_file' = r.file
    /\ config_ops' = config_ops + 1
    /\ UNCHANGED <<cfg_pc, held>>
    /\ UNCHANGED configRest

\* reset_config()
ResetConfig ==
    /\ cfg_pc = "run"
    /\ config_file' = reset_config(defaults)
    /\ cfg_pc' = "reset"
    /\ UNCHANGED <<defaults, held, config_ops>>
    /\ UNCHANGED configRest

\* config = load_config(), right after reset_config()
LoadAfterReset ==
    /\ cfg_pc = "reset"
    /\ LET r == load_config(defaults, config_file)
       IN  held' = [given |-> TRUE, root |-> r.root,
                    heap |-> Restrict(r.heap, DOMAIN r.heap \ DefaultIds)]
    /\ cfg_pc' = "loaded"
    /\ UNCHANGED <<defaults, config_file, config_ops>>
    /\ UNCHANGED configRest

ConfigNext ==
    \/ ConfigStart
    \/ LoadConfig
    \/ SaveConfig
    \/ SetConfigValue
    \/ ResetConfig
    \/ LoadAfterReset

ConfigSpec == ConfigInit /\ [][ConfigNext]_vars

\* C20 (reset restores the defaults): after any calls of load_config,
\* set_config_value and save_config, the config that load_config returns
\* right after reset_config is the DEFAULT_CONFIG of the source text.
C20_ResetRestoresDefaults ==
    cfg_pc = "loaded" =>
        json_dump(defaults @@ held.heap, held.root)
            = json_dump(DefaultHeap, DEFAULT_CONFIG)

\* ---------------------------------------------------------------------
\* LLM usage tracking (llm/usage.py) and the Gemini client (llm/client.py)
\* ---------------------------------------------------------------------

MaxTokens == 2
MaxUsageCalls == 3
MaxRaceRecords == 2

\* PRICING["gemini"]["gemini-2.0-flash"], in units of 0.1 USD per million
\* tokens, so that a cost is a whole number of 1e-7 USD.
InputPrice == 1
OutputPrice == 4

TokenCounts == 0 .. MaxTokens
Today == "today"
ThisMonth == "this-month"

\* llm.limits as the config file may give it: costs in units of 1e-7 USD.
LimitConfigs ==
    {[k \in {} |-> 0]}
        \cup {[k \in {"daily_requests"} |-> n] : n \in 0 .. 2}
        \cup {[k \in {"daily_requests", "daily_cost_usd"} |->
                 IF k = "daily_requests" THEN 2 ELSE InputPrice]}
        \cup {[k \in {"monthly_cost_usd"} |-> OutputPrice]}

\* dict.get(key, default)
GetOr(d, key, default) == IF key \in DOMAIN d THEN d[key] ELSE default

calculate_cost(input_tokens, output_tokens) ==
    input_tokens * InputPrice + output_tokens * OutputPrice

_load_usage(f) == IF f.exists /\ f.valid THEN f.data ELSE _empty_usage

_save_usage(u) == [exists |-> TRUE, valid |-> TRUE, data |-> u]

_ensure_usage_file(f) == IF f.exists THEN f ELSE _save_usage(_empty_usage)

Accumulate_NoRequest(c, input_tokens, output_tokens) ==
    [input_tokens |-> c.input_tokens + input_tokens,
     output_tokens |-> c.output_tokens + output_tokens,
     requests |-> c.requests,
     cost_usd |-> c.cost_usd + calculate_cost(input_tokens, output_tokens)]

\* the four += of record on one counter dictionary
Accumulate(c, input_tokens, output_tokens) ==
    [input_tokens |-> c.input_tokens + input_tokens,
     output_tokens |-> c.output_tokens + output_tokens,
     requests |-> c.requests + 1,
     cost_usd |-> c.cost_usd + calculate_cost(input_tokens, output_tokens)]

\* what record does to the usage it loaded, before it saves it
Recorded(u, input_tokens, output_tokens) ==
    LET day == GetOr(u.daily, Today, NoCounters)
        month == GetOr(u.monthly, ThisMonth, NoCounters)
    IN  [daily |-> [k \in DOMAIN u.daily \cup {Today} |->
                      IF k = Today
                      THEN Accumulate(day, input_tokens, output_tokens)
                      ELSE u.daily[k]],
         monthly |-> [k \in DOMAIN u.monthly \cup {ThisMonth} |->
                      IF k = ThisMonth
                      THEN Accumulate(month, input_tokens, output_tokens)
                      ELSE u.monthly[k]],
         total |-> Accumulate(u.total, input_tokens, output_tokens)]

\* UsageTracker.record: the file after the call
record(f, input_tokens, output_tokens) ==
    _save_usage(Recorded(_load_usage(f), input_tokens, output_tokens))

get_daily_usage(f) == GetOr(_load_usage(f).daily, Today, NoCounters)

get_monthly_usage(f) == GetOr(_load_usage(f).monthly, ThisMonth, NoCounters)

get_total_usage(f) == _load_usage(f).total

ReachedLimit_Above(n, limit) == n > limit

ReachedLimit(n, limit) == n >= limit

\* UsageTracker.check_limits
check_limits(f, the_limits, force) ==
    LET daily == get_daily_usage(f)
        monthly == get_monthly_usage(f)
    IN  IF force
        THEN [can_proceed |-> TRUE, message |-> "None"]
        ELSE IF ReachedLimit(daily.requests, GetOr(the_limits, "daily_requests", 100))
        THEN [can_proceed |-> FALSE, message |-> "daily request limit"]
        ELSE IF daily.cost_usd >= GetOr(the_limits, "daily_cost_usd", 1000000)
        THEN [can_proceed |-> FALSE, message |-> "daily cost limit"]
        ELSE IF monthly.cost_usd >= GetOr(the_limits, "monthly_cost_usd", 10000000)
        THEN [can_proceed |-> FALSE, message |-> "monthly cost limit"]
        ELSE [can_proceed |-> TRUE, message |-> "None"]

\* UsageTracker.reset
reset == _save_usage(_empty_usage)

\* What the API call of generate can come to.
Responses == {"ok", "http_error", "url_error", "bad_body"}

\* GeminiClient.generate: what it raises, whether a request was sent,
\* whether usage was recorded, and the usage file after the call.
generate(f, key, force, the_limits, response, input_tokens, output_tokens) ==
    LET checked == check_limits(f, the_limits, force)
    IN  IF ~key
        THEN [raised |-> "APIKeyError", sent |-> FALSE, recorded |-> FALSE, file |-> f]
        ELSE IF ~checked.can_proceed
        THEN [raised |-> "UsageLimitError", sent |-> FALSE, recorded |-> FALSE, file |-> f]
        ELSE IF response # "ok"
        THEN [raised |-> "APIError", sent |-> TRUE, recorded |-> FALSE, file |-> f]
        ELSE [raised |-> "none", sent |-> TRUE, recorded |-> TRUE,
              file |-> record(f, input_tokens, output_tokens)]

UsageInit ==
    /\ MatcherIdle
    /\ ScanIdle
    /\ AliasIdle
    /\ LineIdle
    /\ ConvIdle
    /\ IgnoreIdle
    /\ DictIdle
    /\ ConfigIdle
    /\ UsageIdle
    /\ ReviewIdle
    /\ FixIdle

\* GeminiClient(force=...), whose UsageTracker() makes sure the file is there
UsageStart ==
    /\ upc = "idle"
    /\ \E key \in BOOLEAN, force \in BOOLEAN, the_limits \in LimitConfigs,
          corrupt \in BOOLEAN :
          /\ api_key' = key
          /\ client_force' = force
          /\ client_limits' = the_limits
          /\ usage_file' = IF corrupt
                           THEN [exists |-> TRUE, valid |-> FALSE, data |-> _empty_usage]
                           ELSE _ensure_usage_file(usage_file)
    /\ upc' = "ready"
    /\ UNCHANGED <<outcome, api_sent, record_calls, recorded_in, recorded_out,
                   resets, usage_calls, trackers>>
    /\ UNCHANGED usageRest

\* tracker.record(input_tokens, output_tokens)
Record ==
    /\ upc = "ready"
    /\ usage_calls < MaxUsageCalls
    /\ \E i \in TokenCounts, o \in TokenCounts :
          /\ usage_file' = record(usage_file, i, o)
          /\ recorded_in' = recorded_in + i
          /\ recorded_out' = recorded_out + o
    /\ record_calls' = record_calls + 1
    /\ usage_calls' = usage_calls + 1
    /\ outcome' = [NoOutcome EXCEPT !.op = "record", !.seq = usage_calls + 1]
    /\ UNCHANGED <<upc, api_key, client_force, client_limits, api_sent, resets, trackers>>
    /\ UNCHANGED usageRest

\* tracker.reset()
Reset ==
    /\ upc = "ready"
    /\ usage_calls < MaxUsageCalls
    /\ usage_file' = reset
    /\ record_calls' = 0
    /\ recorded_in' = 0
    /\ recorded_out' = 0
    /\ resets' = resets + 1
    /\ usage_calls' = usage_calls + 1
    /\ outcome' = [NoOutcome EXCEPT !.op = "reset", !.seq = usage_calls + 1]
    /\ UNCHANGED <<upc, api_key, client_force, client_limits, api_sent, trackers>>
    /\ UNCHANGED usageRest

\* tracker.check_limits(force=...)
CheckLimits ==
    /\ upc = "ready"
    /\ usage_calls < MaxUsageCalls
    /\ \E force \in BOOLEAN :
          LET r == check_limits(usage_file, client_limits, force)
          IN  outcome' = [op |-> "check_limits", seq |-> usage_calls + 1,
                          force |-> force, raised |-> "none",
                          can_proceed |-> r.can_proceed, message |-> r.message]
    /\ usage_calls' = usage_calls + 1
    /\ UNCHANGED <<upc, usage_file, api_key, client_force, client_limits, api_sent,
                   record_calls, recorded_in, recorded_out, resets, trackers>>
    /\ UNCHANGED usageRest

\* client.generate(prompt)
Generate ==
    /\ upc = "ready"
    /\ usage_calls < MaxUsageCalls
    /\ \E response \in Responses, i \in TokenCounts, o \in TokenCounts :
          \* token counts come with a response that parses
          /\ response = "ok" \/ (i = 0 /\ o = 0)
          /\ LET r == generate(usage_file, api_key, client_force, client_limits,
                               response, i, o)
             IN  /\ usage_file' = r.file
                 /\ api_sent' = IF r.sent THEN api_sent + 1 ELSE api_sent
                 /\ record_calls' = IF r.recorded THEN record_calls + 1 ELSE record_calls
                 /\ recorded_in' = IF r.recorded THEN recorded_in + i ELSE recorded_in
                 /\ recorded_out' = IF r.recorded THEN recorded_out + o ELSE recorded_out
                 /\ outcome' = [NoOutcome EXCEPT !.op = "generate",
                                                 !.seq = usage_calls + 1,
                                                 !.force = client_force,
                                                 !.raised = r.raised]
    /\ usage_calls' = usage_calls + 1
    /\ UNCHANGED <<upc, api_key, client_force, client_limits, resets, trackers>>
    /\ UNCHANGED usageRest

UsageNext ==
    \/ UsageStart
    \/ Record
    \/ Reset
    \/ CheckLimits
    \/ Generate

UsageSpec == UsageInit /\ [][UsageNext]_vars

\* The counters that the three get_*_usage calls show.
Shown == <<get_daily_usage(usage_file), get_monthly_usage(usage_file),
           get_total_usage(usage_file)>>

\* C21 (usage accounting): after any record and reset calls of one tracker
\* within one day, the daily, the monthly and the total counters each show
\* as many requests as record was called since the last reset, and the sums
\* of the recorded input and output tokens; right after reset all are zero.
C21_UsageAccounting ==
    upc = "ready" =>
        /\ \A n \in 1 .. 3 :
              /\ Shown[n].requests = record_calls
              /\ Shown[n].input_tokens = recorded_in
              /\ Shown[n].output_tokens = recorded_out
        /\ outcome.op = "reset" =>
              \A n \in 1 .. 3 :
                 /\ Shown[n].requests = 0
                 /\ Shown[n].input_tokens = 0
                 /\ Shown[n].output_tokens = 0

C21_Witness ==
    /\ upc = "ready"
    /\ resets = 1
    /\ record_calls = 2
    /\ recorded_in = 3
    /\ recorded_out = 1
    /\ outcome.op = "record"

\* The configured daily request limit, as check_limits reads it.
DailyLimit == GetOr(client_limits, "daily_requests", 100)

\* Today's recorded request count has reached the configured limit.
AtDailyLimit == get_daily_usage(usage_file).requests >= DailyLimit

\* This step is a call of client.generate.
GenerateStep ==
    /\ upc = "ready"
    /\ usage_calls' = usage_calls + 1
    /\ outcome'.op = "generate"

\* What check_limits returned, against the claim.
CheckLimitsGates ==
    outcome.op = "check_limits" =>
        /\ outcome.force => outcome.can_proceed /\ outcome.message = "None"
        /\ ~outcome.force /\ AtDailyLimit =>
              ~outcome.can_proceed /\ outcome.message # "None"

\* C22 as stated (limit gating): check_limits(force=True) returns
\* (True, None); check_limits(force=False) returns (False, message) whenever
\* today's request count has reached the daily limit, and generate with
\* force=False then raises UsageLimitError, sends nothing, records nothing.
C22_Original ==
    /\ []CheckLimitsGates
    /\ [][GenerateStep /\ ~client_force /\ AtDailyLimit =>
             /\ outcome'.raised = "UsageLimitError"
             /\ api_sent' = api_sent
             /\ usage_file' = usage_file]_vars

\* C22 amended (limit gating): as stated for check_limits; generate with
\* force=False at the daily limit sends nothing and records nothing, and
\* raises UsageLimitError when an API key is set, APIKeyError when none is:
\* the key is checked before the limits.
C22_LimitGating ==
    /\ []CheckLimitsGates
    /\ [][GenerateStep /\ ~client_force /\ AtDailyLimit =>
             /\ outcome'.raised = IF api_key THEN "UsageLimitError" ELSE "APIKeyError"
             /\ api_sent' = api_sent
             /\ usage_file' = usage_file]_vars

C22_Witness ==
    /\ outcome.op = "generate"
    /\ outcome.raised = "UsageLimitError"
    /\ ~client_force
    /\ api_key
    /\ record_calls = DailyLimit
    /\ DailyLimit = 2
    /\ AtDailyLimit
    /\ api_sent = 1

\* C28 (the daily limit bounds the API traffic): for a client with
\* force=False and daily request limit L, after any generate calls on one
\* day, succeeding or failing, at most L API requests were sent that day.
C28_LimitBoundsTraffic ==
    (upc = "ready" /\ ~client_force /\ resets = 0) => api_sent <= DailyLimit

\* ---------------------------------------------------------------------
\* Two UsageTracker instances on one usage file (llm/usage.py)
\* ---------------------------------------------------------------------

Trackers == {1, 2}

RaceInit == UsageInit

\* UsageTracker() twice: the first makes sure the file is there
RaceStart ==
    /\ upc = "idle"
    /\ usage_file' = _ensure_usage_file(usage_file)
    /\ upc' = "racing"
    /\ UNCHANGED <<api_key, client_force, client_limits, outcome, api_sent,
                   record_calls, recorded_in, recorded_out, resets, usage_calls,
                   trackers>>
    /\ UNCHANGED usageRest

\* record, up to usage = self._load_usage()
RecordLoad(p) ==
    /\ upc = "racing"
    /\ trackers[p].pc = "idle"
    /\ trackers[p].done < MaxRaceRecords
    /\ \E i \in TokenCounts, o \in TokenCounts :
          trackers' = [trackers EXCEPT ![p] =
                         [pc |-> "loaded", usage |-> _load_usage(usage_file),
                          input_tokens |-> i, output_tokens |-> o,
                          done |-> trackers[p].done]]
    /\ UNCHANGED <<upc, usage_file, api_key, client_force, client_limits, outcome,
                   api_sent, record_calls, recorded_in, recorded_out, resets,
                   usage_calls>>
    /\ UNCHANGED usageRest

\* record, from the first update to self._save_usage(usage)
RecordSave(p) ==
    /\ upc = "racing"
    /\ trackers[p].pc = "loaded"
    /\ usage_file' = _save_usage(Recorded(trackers[p].usage,
                                          trackers[p].input_tokens,
                                          trackers[p].output_tokens))
    /\ record_calls' = record_calls + 1
    /\ recorded_in' = recorded_in + trackers[p].input_tokens
    /\ recorded_out' = recorded_out + trackers[p].output_tokens
    /\ trackers' = [trackers EXCEPT ![p] =
                      [NoTracker EXCEPT !.done = trackers[p].done + 1]]
    /\ UNCHANGED <<upc, api_key, client_force, client_limits, outcome, api_sent,
                   resets, usage_calls>>
    /\ UNCHANGED usageRest

RaceNext ==
    \/ RaceStart
    \/ \E p \in Trackers : RecordLoad(p)
    \/ \E p \in Trackers : RecordSave(p)

RaceSpec == RaceInit /\ [][RaceNext]_vars

\* C29 (recording is atomic across trackers): when two trackers on one
\* usage file interleave their record calls, the counts in the file at the
\* end are those of all the record calls made: no update is lost.
C29_NoLostUpdate ==
    (upc = "racing" /\ \A p \in Trackers : trackers[p].pc = "idle") =>
        /\ get_total_usage(usage_file).requests = record_calls
        /\ get_total_usage(usage_file).input_tokens = recorded_in
        /\ get_total_usage(usage_file).output_tokens = recorded_out
        /\ get_daily_usage(usage_file).requests = record_calls

\* ---------------------------------------------------------------------
\* Vetoed and suppressed occurrences (matcher.py:86-109)
\* ---------------------------------------------------------------------

\* The match that find_matches would emit for the occurrence o.
MatchOf(o) == Match(o[1], o[1] + Len(o[2]), o[2], terms[o[2]])

Emitted(o) == MatchOf(o) \in Elems(matches)

\* The occurrence o shares a character offset with an identity occurrence.
TouchesIdentity(o) ==
    \E i \in IdentityOccurrences(terms, text) :
        Offsets(o[1], o[2]) \cap Offsets(i[1], i[2]) # {}

\* The occurrence o shares a character offset with an emitted match that
\* is not its own.
TouchesEmitted(o) ==
    \E mt \in Elems(matches) :
        mt # MatchOf(o) /\ Offsets(o[1], o[2]) \cap Span(mt) # {}

\* Occurrence c is sorted after occurrence v and starts in v's span.
StartsInside(c, v) ==
    /\ c[1] \in Offsets(v[1], v[2])
    /\ c[1] > v[1] \/ Len(c[2]) < Len(v[2])

\* C25 (a vetoed occurrence claims nothing): a conversion occurrence that
\* is sorted after a vetoed occurrence and starts inside or at the start of
\* its span, and that shares no offset with an identity occurrence nor with
\* another emitted match, is emitted.
C25_VetoClaimsNothing ==
    Returned("find_matches") =>
        \A v \in ConversionOccurrences(terms, text) :
            TouchesIdentity(v) =>
                \A c \in ConversionOccurrences(terms, text) :
                    (StartsInside(c, v) /\ ~TouchesIdentity(c) /\ ~TouchesEmitted(c))
                        => Emitted(c)

\* C25's case: an occurrence starting strictly inside a vetoed span was
\* emitted.
C25_Witness ==
    /\ Returned("find_matches")
    /\ \E v \in ConversionOccurrences(terms, text) :
          /\ TouchesIdentity(v)
          /\ \E c \in ConversionOccurrences(terms, text) :
                c[1] > v[1] /\ StartsInside(c, v) /\ Emitted(c)

\* The spans of o and of x share no offset and one ends where the other
\* starts.
Abuts(o, x) == o[1] + Len(o[2]) = x[1] \/ x[1] + Len(x[2]) = o[1]

\* The spans that can suppress: emitted matches and identity occurrences.
Suppressors ==
    {<<mt.start, mt.source>> : mt \in Elems(matches)}
        \cup IdentityOccurrences(terms, text)

\* C26 (no unexplained suppression): every conversion occurrence that
\* find_matches does not emit shares a character offset with an emitted
\* match or with an identity occurrence; one that only abuts such spans,
\* sharing an offset with none, is emitted.
C26_NoUnexplainedSuppression ==
    Returned("find_matches") =>
        /\ \A c \in ConversionOccurrences(terms, text) :
              ~Emitted(c) => TouchesEmitted(c) \/ TouchesIdentity(c)
        /\ \A c \in ConversionOccurrences(terms, text) :
              ((\E x \in Suppressors \ {c} : Abuts(c, x))
                  /\ \A x \in Suppressors \ {c} :
                        Offsets(c[1], c[2]) \cap Offsets(x[1], x[2]) = {})
                  => Emitted(c)

\* C26's case: one occurrence was suppressed by an emitted match, and an
\* emitted occurrence starts where an emitted match or an identity
\* occurrence ends.
C26_Witness ==
    /\ Returned("find_matches")
    /\ \E c \in ConversionOccurrences(terms, text) :
          ~Emitted(c) /\ TouchesEmitted(c)
    /\ \E c \in ConversionOccurrences(terms, text) :
          Emitted(c) /\ \E x \in Suppressors : x[1] + Len(x[2]) = c[1]

\* ---------------------------------------------------------------------
\* Report and fix (converter.py:305-357)
\* ---------------------------------------------------------------------

\* The matches of the reported records, in their order.
ReportedMatches == [k \in 1..Len(creported) |-> creported[k].match]

\* C27 (report and fix agree): for every text, mapping and ignored-line
\* set, terms and texts with line breaks included, the text that
\* convert_text returns with fix=True is the input text with exactly the
\* reported matches substituted and nothing else changed.
C27_ReportAndFixAgree ==
    (cpc = "convert_text" /\ cfix) =>
        cout = Substitute(ctext, ReportedMatches)

\* ---------------------------------------------------------------------
\* Reviewing pending terms (review.py, cli.py review)
\* ---------------------------------------------------------------------

MaxPending == 2
MaxPrompts == 3

PendingSources == {"s1", "s2", "s3"}
PendingTargets == {"t1", "t2"}

\* The "terms" object of a pending file, in the order of terms.items():
\* the sources are the keys of a dict, so no two are equal.
PendingLists ==
    {l \in SeqsUpTo([source : PendingSources, target : PendingTargets], MaxPending) :
        \A i \in 1..Len(l) : \A j \in 1..Len(l) : l[i].source = l[j].source => i = j}

\* The dict that the list l is the items() of.
AsDict(l) ==
    [s \in {l[i].source : i \in 1..Len(l)} |->
        l[CHOOSE i \in 1..Len(l) : l[i].source = s].target]

\* imported.json before the review: absent, unreadable, or with terms.
ImportedFiles ==
    {[exists |-> FALSE, valid |-> FALSE, terms |-> NoTerms],
     [exists |-> TRUE, valid |-> FALSE, terms |-> NoTerms],
     [exists |-> TRUE, valid |-> TRUE, terms |-> NoTerms],
     [exists |-> TRUE, valid |-> TRUE, terms |-> ("s1" :> "t0")]}

ApproveWord == <<"a", "p", "p", "r", "o", "v", "e">>
RejectWord == <<"r", "e", "j", "e", "c", "t">>
SkipWord == <<"s", "k", "i", "p">>
QuitWord == <<"q", "u", "i", "t">>

\* What the reviewer may type at one prompt.
RawInputs ==
    {<<"a">>, <<"A">>, <<" ", "a", " ">>, ApproveWord, <<"A">> \o Tail(ApproveWord),
     <<"r">>, <<"R">>, RejectWord, <<"s">>, <<"S", " ">>, SkipWord,
     <<"q">>, <<" ", "Q">>, QuitWord,
     <<>>, <<" ">>, <<"x">>, <<"a", "a">>, <<"a", " ", "a">>}

\* str.lower() on one character
LowerChar(ch) ==
    CASE ch = "A" -> "a"
      [] ch = "R" -> "r"
      [] ch = "S" -> "s"
      [] ch = "Q" -> "q"
      [] OTHER -> ch

Lower(w) == [i \in 1..Len(w) |-> LowerChar(w[i])]

RECURSIVE LStrip(_)
LStrip(w) == IF w # <<>> /\ Head(w) = " " THEN LStrip(Tail(w)) ELSE w

RECURSIVE RStrip(_)
RStrip(w) ==
    IF w # <<>> /\ w[Len(w)] = " " THEN RStrip(SubSeq(w, 1, Len(w) - 1)) ELSE w

\* input(...).strip().lower()
Normalised(w) == Lower(RStrip(LStrip(w)))

\* The branch of the if/elif chain that the action takes.
Branch(action) ==
    IF action \in {<<"a">>, ApproveWord} THEN "approve"
    ELSE IF action \in {<<"r">>, RejectWord} THEN "reject"
    ELSE IF action \in {<<"s">>, SkipWord} THEN "skip"
    ELSE IF action \in {<<"q">>, QuitWord} THEN "quit"
    ELSE "again"

Tally_CountsUnknown(res, branch) ==
    CASE branch = "approve" -> [res EXCEPT !.approved = @ + 1]
      [] branch = "reject" -> [res EXCEPT !.rejected = @ + 1]
      [] branch = "skip" -> [res EXCEPT !.skipped = @ + 1]
      [] branch = "again" -> [res EXCEPT !.skipped = @ + 1]
      [] OTHER -> res

\* The counter of the result that the branch adds to.
Tally(res, branch) ==
    CASE branch = "approve" -> [res EXCEPT !.approved = @ + 1]
      [] branch = "reject" -> [res EXCEPT !.rejected = @ + 1]
      [] branch = "skip" -> [res EXCEPT !.skipped = @ + 1]
      [] OTHER -> res

\* The decisions that deciding every term of l the same way makes.
AllDecided(l, branch) ==
    [i \in 1..Len(l) |->
        [source |-> l[i].source, target |-> l[i].target, action |-> branch]]

\* approve_terms: imported.json after the call
approve_terms(f, new_terms) ==
    LET existing == IF f.exists /\ f.valid THEN f.terms ELSE NoTerms
    IN  [exists |-> TRUE, valid |-> TRUE, terms |-> Update(existing, new_terms)]

\* delete_pending
delete_pending(f) == [exists |-> FALSE, terms |-> <<>>]

\* finalize_review: the two files after the call
finalize_review(res, pf, imp, delete_after) ==
    [imported |-> IF DOMAIN res.terms = {} THEN imp ELSE approve_terms(imp, res.terms),
     pending |-> IF delete_after THEN delete_pending(pf) ELSE pf]

ReviewInit ==
    /\ MatcherIdle
    /\ ScanIdle
    /\ AliasIdle
    /\ LineIdle
    /\ ConvIdle
    /\ IgnoreIdle
    /\ DictIdle
    /\ ConfigIdle
    /\ UsageIdle
    /\ ReviewIdle
    /\ FixIdle

\* review_pending_file, up to the first prompt: load_pending, the two auto
\* modes, and the loop when it is not interactive
ReviewStart ==
    /\ rpc = "idle"
    /\ \E l \in PendingLists, imp \in ImportedFiles,
          flags \in [interactive : BOOLEAN, auto_approve : BOOLEAN,
                     auto_reject : BOOLEAN] :
          /\ pending_file' = [exists |-> TRUE, terms |-> l]
          /\ imported_file' = imp
          /\ review_flags' = flags
          /\ review_terms' = l
          /\ IF flags.auto_approve
             THEN /\ review_result' = [NewReviewResult EXCEPT !.approved = Len(l),
                                                            !.terms = AsDict(l)]
                  /\ decisions' = AllDecided(l, "approve")
                  /\ rpc' = "returned"
                  /\ UNCHANGED <<term_idx, approved_terms>>
             ELSE IF flags.auto_reject
             THEN /\ review_result' = [NewReviewResult EXCEPT !.rejected = Len(l)]
                  /\ decisions' = AllDecided(l, "reject")
                  /\ rpc' = "returned"
                  /\ UNCHANGED <<term_idx, approved_terms>>
             ELSE IF ~flags.interactive
             THEN /\ review_result' = [NewReviewResult EXCEPT !.approved = Len(l),
                                                            !.terms = AsDict(l)]
                  /\ approved_terms' = AsDict(l)
                  /\ decisions' = AllDecided(l, "approve")
                  /\ term_idx' = Len(l)
                  /\ rpc' = "returned"
             ELSE /\ review_result' = NewReviewResult
                  /\ decisions' = <<>>
                  /\ approved_terms' = NoTerms
                  /\ term_idx' = IF l = <<>> THEN 0 ELSE 1
                  /\ rpc' = IF l = <<>> THEN "returned" ELSE "prompt"
    /\ UNCHANGED <<prompts, has_quit, last_input>>
    /\ UNCHANGED reviewRest

\* One turn of the while loop: input() and the if/elif chain on it
ReviewInput ==
    /\ rpc = "prompt"
    /\ prompts < MaxPrompts
    /\ \E typed \in RawInputs :
          LET branch == Branch(Normalised(typed))
              item == review_terms[term_idx]
              approved == IF branch = "approve"
                          THEN Update(approved_terms, (item.source :> item.target))
                          ELSE approved_terms
              last == term_idx = Len(review_terms)
              returns == branch = "quit" \/ (branch # "again" /\ last)
          IN  /\ last_input' = typed
              /\ approved_terms' = approved
              /\ review_result' =
                    [Tally(review_result, branch) EXCEPT
                        !.terms = IF returns THEN approved ELSE @]
              /\ decisions' =
                    IF branch \in {"approve", "reject", "skip"}
                    THEN Append(decisions, [source |-> item.source,
                                            target |-> item.target,
                                            action |-> branch])
                    ELSE decisions
              /\ has_quit' = (branch = "quit")
              /\ term_idx' = IF branch \in {"again", "quit"} \/ last
                             THEN term_idx ELSE term_idx + 1
              /\ rpc' = IF returns THEN "returned" ELSE "prompt"
    /\ prompts' = prompts + 1
    /\ UNCHANGED <<pending_file, imported_file, review_flags, review_terms>>
    /\ UNCHANGED reviewRest

\* input() raises EOFError: the review command catches it and goes on
ReviewEOF ==
    /\ rpc = "prompt"
    /\ rpc' = "failed"
    /\ UNCHANGED <<pending_file, imported_file, review_flags, term_idx,
                   approved_terms, review_result, decisions, prompts, has_quit,
                   last_input, review_terms>>
    /\ UNCHANGED reviewRest

\* The review command after review_pending_file returned: finalize_review
Finalize ==
    /\ rpc = "returned"
    /\ LET r == finalize_review(review_result, pending_file, imported_file, TRUE)
       IN  /\ imported_file' = r.imported
           /\ pending_file' = r.pending
    /\ rpc' = "done"
    /\ UNCHANGED <<review_flags, term_idx, approved_terms, review_result,
                   decisions, prompts, has_quit, last_input, review_terms>>
    /\ UNCHANGED reviewRest

ReviewNext ==
    \/ ReviewStart
    \/ ReviewInput
    \/ ReviewEOF
    \/ Finalize

ReviewSpec == ReviewInit /\ [][ReviewNext]_vars

\* The review ran interactively: neither auto mode, and prompting.
Interactive ==
    review_flags.interactive /\ ~review_flags.auto_approve /\ ~review_flags.auto_reject

\* The pairs approved so far, as a dict.
ApprovedPairs ==
    [s \in {decisions[i].source : i \in {j \in 1..Len(decisions) :
                                            decisions[j].action = "approve"}} |->
        AsDict(review_terms)[s]]

\* The ReviewResult that review_pending_file returned.
ResultBooks ==
    (rpc \in {"returned", "done"} /\ Interactive) =>
        /\ review_result.approved = Cardinality(DOMAIN review_result.terms)
        /\ review_result.terms = ApprovedPairs
        /\ review_result.approved + review_result.rejected + review_result.skipped
              = Len(decisions)
        /\ ~has_quit => Len(decisions) = Len(review_terms)
        /\ \A i \in 1..Len(decisions) :
              /\ decisions[i].source = review_terms[i].source
              /\ decisions[i].target = review_terms[i].target

\* This step is one input() call and what the loop does with it.
InputStep == rpc = "prompt" /\ prompts' = prompts + 1

\* C23 (interactive review bookkeeping): the returned ReviewResult has
\* approved = len(terms), terms being exactly the approved pairs, and
\* approved + rejected + skipped is the number of terms decided, which is
\* all terms unless the reviewer quit; an unrecognised input changes no
\* counter and prompts again for the same term; quit returns at once with
\* the terms approved so far.
C23_ReviewBookkeeping ==
    /\ []ResultBooks
    /\ [][(InputStep /\ Branch(Normalised(last_input')) = "again") =>
             /\ review_result' = review_result
             /\ approved_terms' = approved_terms
             /\ term_idx' = term_idx
             /\ rpc' = "prompt"]_vars
    /\ [][(InputStep /\ Branch(Normalised(last_input')) = "quit") =>
             /\ rpc' = "returned"
             /\ review_result' = [review_result EXCEPT !.terms = approved_terms]]_vars

\* C23's case: the reviewer approved a term, typed something unrecognised,
\* and quit before the last term.
C23_Witness ==
    /\ rpc = "returned"
    /\ Interactive
    /\ has_quit
    /\ prompts = 3
    /\ review_result.approved = 1
    /\ Len(decisions) = 1
    /\ Len(review_terms) = 2

\* C30 (no pending term is lost by a review): after the review command has
\* processed a pending file, every term of it is in the approved dictionary
\* file, or was rejected, or is still stored in a pending file.
C30_NoTermLost ==
    rpc = "done" =>
        \A i \in 1..Len(review_terms) :
            LET t == review_terms[i]
            IN  \/ /\ imported_file.exists /\ imported_file.valid
                   /\ t.source \in DOMAIN imported_file.terms
                   /\ imported_file.terms[t.source] = t.target
                \/ \E k \in 1..Len(decisions) :
                      decisions[k].source = t.source /\ decisions[k].action = "reject"
                \/ /\ pending_file.exists
                   /\ \E k \in 1..Len(pending_file.terms) : pending_file.terms[k] = t

\* ---------------------------------------------------------------------
\* The fix command and its backup (cli.py fix, create_backup)
\* ---------------------------------------------------------------------

\* DEFAULT_EXCLUDES of converter.py
DEFAULT_EXCLUDES ==
    {"node_modules", ".git", "dist", "build", "target", "__pycache__", ".venv",
     "venv", ".idea", ".vscode", "coverage", ".zhtw-backup"}

\* The suffixes of DEFAULT_EXTENSIONS among the file names used here.
CheckedNames == {"a.txt", "b.txt"}

\* The paths, relative to the directory, that may be there at the start:
\* two text files, a file of another kind, and a copy left by an earlier
\* backup.
StartPaths ==
    {<<"a.txt">>, <<"sub", "b.txt">>, <<"doc", "c.bin">>, <<".zhtw-backup", "old", "a.txt">>}

\* A file with a term to convert, one without Chinese text, and one whose
\* only term is on a disabled line.
FixContents == {<<"A">>, <<"x">>, <<"A", DisableLine>>}

\* The dictionary that process_directory loads.
FixTerms == (<<"A">> :> <<"x">>)

\* The two text files hold any of the contents, the other two a term.
StartTrees ==
    {files \in UNION {[D -> FixContents] : D \in SUBSET StartPaths} :
        \A f \in DOMAIN files : Len(f) = 1 \/ f[1] = "sub" \/ files[f] = <<"A">>}

\* --exclude: not given, or a comma-separated list of directory names
ExcludeOptions ==
    {[given |-> FALSE, names |-> {}],
     [given |-> TRUE, names |-> {"sub"}],
     [given |-> TRUE, names |-> {"sub", ".zhtw-backup"}]}

FixOptions ==
    [backup : BOOLEAN, dry_run : BOOLEAN, show_diff : BOOLEAN,
     json_output : BOOLEAN, auto_yes : BOOLEAN, exclude : ExcludeOptions]

\* should_check_file(path, None, excludes)
should_check_file(path, exclude) ==
    LET names == IF exclude.given THEN exclude.names ELSE DEFAULT_EXCLUDES
    IN  /\ path[Len(path)] \in CheckedNames
        /\ \A i \in 1..Len(path) : path[i] \notin names

\* convert_file from "Build issues list" on: the FileResult, and what the
\* file holds afterwards, r being what convert_text returned
FileResult(content, fix, r) ==
    [skipped |-> FALSE, issues |-> r.matches,
     modified |-> ShouldWrite(fix, r.matches),
     content |-> IF ShouldWrite(fix, r.matches) THEN r.text ELSE content]

\* convert_file on a file that holds content
convert_file(m, content, fix) ==
    IF ~contains_chinese(content)
    THEN [skipped |-> TRUE, issues |-> <<>>, modified |-> FALSE, content |-> content]
    ELSE FileResult(content, fix,
                    convert_text(m, _build_automaton(m), content, fix,
                                 get_ignored_lines(content)))

\* The files that convert_directory collects.
Collected(files, exclude) ==
    {f \in DOMAIN files : should_check_file(f, exclude)}

\* backup_dir / rel_path of create_backup
BackupPath(f) == <<".zhtw-backup", "timestamp">> \o f

\* create_backup(files, base): the tree after the copies
create_backup(files, toCopy) ==
    [f \in DOMAIN files \cup {BackupPath(g) : g \in toCopy} |->
        IF \E g \in toCopy : f = BackupPath(g)
        THEN files[CHOOSE g \in toCopy : f = BackupPath(g)]
        ELSE files[f]]

FixInit ==
    /\ MatcherIdle
    /\ ScanIdle
    /\ AliasIdle
    /\ LineIdle
    /\ ConvIdle
    /\ IgnoreIdle
    /\ DictIdle
    /\ ConfigIdle
    /\ UsageIdle
    /\ ReviewIdle
    /\ FixIdle

\* zhtw fix <directory> with its options, up to the warning about git
FixStart ==
    /\ fpc = "idle"
    /\ \E files \in StartTrees, o \in FixOptions, proceed \in BOOLEAN :
          /\ tree' = files
          /\ fix_opts' = o
          /\ fpc' = IF ~o.dry_run /\ ~o.backup /\ ~o.json_output /\ ~o.auto_yes
                       /\ ~proceed
                    THEN "exit" ELSE "scan"
    /\ UNCHANGED <<check_issues, fixing, to_process, copied, modified_files>>
    /\ UNCHANGED fixRest

\* The files in result.issues of a pass with fix=False.
WithIssues(files, exclude) ==
    {f \in Collected(files, exclude) :
        convert_file(FixTerms, files[f], FALSE).issues # <<>>}

\* The fix command after its first pass reported issues in the files given
Checked(withIssues) ==
    /\ check_issues' = withIssues
    /\ fpc' = IF fix_opts.show_diff /\ (withIssues = {} \/ fix_opts.json_output)
              THEN "exit" ELSE "checked"

\* The first pass, process_directory(fix=False), of --show-diff or --backup
CheckPass ==
    /\ fpc = "scan"
    /\ fix_opts.show_diff \/ (fix_opts.backup /\ ~fix_opts.dry_run)
    /\ Checked(WithIssues(tree, fix_opts.exclude))
    /\ UNCHANGED <<tree, fix_opts, fixing, to_process, copied, modified_files>>
    /\ UNCHANGED fixRest

\* --show-diff: the confirmation is refused
Decline ==
    /\ fpc = "checked"
    /\ fix_opts.show_diff
    /\ ~fix_opts.auto_yes
    /\ fpc' = "exit"
    /\ UNCHANGED <<tree, fix_opts, check_issues, fixing, to_process, copied,
                   modified_files>>
    /\ UNCHANGED fixRest

\* do_backup_if_needed(result)
DoBackup ==
    /\ fpc = "checked"
    /\ IF fix_opts.backup /\ check_issues # {}
       THEN /\ tree' = create_backup(tree, check_issues)
            /\ copied' = copied \cup check_issues
       ELSE UNCHANGED <<tree, copied>>
    /\ fpc' = "collect"
    /\ UNCHANGED <<fix_opts, check_issues, fixing, to_process, modified_files>>
    /\ UNCHANGED fixRest

\* The last pass starts: convert_directory collects the files
Collect ==
    /\ \/ fpc = "collect"
       \/ fpc = "scan" /\ ~fix_opts.show_diff /\ ~(fix_opts.backup /\ ~fix_opts.dry_run)
    /\ to_process' = Collected(tree, fix_opts.exclude)
    /\ fixing' = (fix_opts.show_diff \/ ~fix_opts.dry_run)
    /\ fpc' = "pass"
    /\ UNCHANGED <<tree, fix_opts, check_issues, copied, modified_files>>
    /\ UNCHANGED fixRest

\* The pass after convert_file returned r for the file f
Processed(f, r) ==
    /\ tree' = [tree EXCEPT ![f] = r.content]
    /\ modified_files' = IF r.modified THEN modified_files \cup {f}
                         ELSE modified_files
    /\ to_process' = to_process \ {f}

\* convert_file on the next file of the pass
FixFile ==
    /\ fpc = "pass"
    /\ \E f \in to_process : Processed(f, convert_file(FixTerms, tree[f], fixing))
    /\ UNCHANGED <<fpc, fix_opts, check_issues, fixing, copied>>
    /\ UNCHANGED fixRest

\* The pass is over and the command exits
FixEnd ==
    /\ fpc = "pass"
    /\ to_process = {}
    /\ fpc' = "exit"
    /\ UNCHANGED <<tree, fix_opts, check_issues, fixing, to_process, copied,
                   modified_files>>
    /\ UNCHANGED fixRest

FixNext ==
    \/ FixStart
    \/ CheckPass
    \/ Decline
    \/ DoBackup
    \/ Collect
    \/ FixFile
    \/ FixEnd

FixSpec == FixInit /\ [][FixNext]_vars

\* C24 (backup precedes modification): when fix runs with --backup and
\* without --dry-run, every file that the fix pass has modified was copied
\* into the .zhtw-backup directory before: at every moment the files
\* modified so far are among the files copied.
C24_BackupPrecedesModification ==
    (fix_opts.backup /\ ~fix_opts.dry_run) => modified_files \subseteq copied

====
